---- MODULE Spec2Model ----
(***************************************************************************)
(* Option / Result and their promise-wrapped forms AsyncOption /           *)
(* AsyncResult (reismannnr2/async-result).                                 *)
(*                                                                         *)
(* Objects live in a heap and are referred to by their address, so that    *)
(* `toBe` identity is the equality of addresses.  A promise is a record    *)
(* [st, val]; an async function is a frame that is resumed when the        *)
(* promise it awaits has settled.  User callbacks are black boxes whose    *)
(* behaviour (return, throw, resolve, reject, stay pending) is chosen      *)
(* when they are invoked.                                                  *)
(***************************************************************************)
EXTENDS Integers, FiniteSets, Sequences, TLC

\* ------------------------------------------------------------------ bounds
\* JavaScript payloads are 0..MaxVal; 0 stands for the falsy payloads
\* (undefined, null, 0, false, '').
MaxVal == 1
\* number of asynchronous containers / pending terminal calls in one run
MaxStages == 3

\* ------------------------------------------------------------------ values
Vals == 0..MaxVal
\* the value of a missing argument: ok() stores undefined
Undefined == 0
\* the Error objects the library throws, one per message
ErrUnwrapErrOnOk == -1
ErrUnwrapOnErr == -2
ErrUnwrapNone == -3
\* what predicates answer
False == 0
Truthy(v) == v # 0

ObjIds == 0..(2 * MaxStages + 2)
NoObj == [cls |-> "NoObj"]
Free == [cls |-> "Free"]

\* ------------------------------------------------------------------ user functions
\* A callback is [mode, g, kind]: it computes x = g(arg) and then returns x,
\* throws x, returns a promise that resolves to x / rejects with x / never
\* settles.  A callback that must return a container returns one of class
\* `kind` holding x.
Modes == {"ret", "throw", "resolve", "reject", "never"}
SyncModes == {"ret", "throw"}
Apply(g, v) ==
  CASE g = "id" -> v
    [] g = "inc" -> (v + 1) % (MaxVal + 1)
    [] g = "zero" -> 0

\* f(arg); a callback "const" is a closure given by the value c it has at the
\* one argument it is applied to
Call(f, arg) ==
  LET x == IF f.g = "const" THEN f.c ELSE Apply(f.g, arg) IN
  CASE f.mode = "ret" -> [type |-> "ret", val |-> x]
    [] f.mode = "throw" -> [type |-> "throw", val |-> x]
    [] OTHER -> [type |-> "promise", val |-> x, settle |-> f.mode]

\* ------------------------------------------------------------------ call results
\* The outcome of a synchronous method call: what it returned or threw, the
\* object it allocated (if any) and how often it invoked its callback.
Ret(v, n) == [type |-> "ret", val |-> v, new |-> NoObj, called |-> n]
RetNew(o, n) == [type |-> "ret", val |-> o.id, new |-> o, called |-> n]
Throw(x, n) == [type |-> "throw", val |-> x, new |-> NoObj, called |-> n]
RetPromise(c, n) ==
  [type |-> "promise", val |-> c.val, settle |-> c.settle, new |-> NoObj, called |-> n]
\* returning c, the plain value or the promise a callback returned (or an argument is)
ReturnValue(c, n) ==
  IF c.type = "throw" THEN Throw(c.val, n)
  ELSE IF c.type = "ret" THEN Ret(c.val, n) ELSE RetPromise(c, n)

\* ------------------------------------------------------------------ awaiting
\* The outcome of an async method: how often it invoked its callback, what it
\* awaited before settling ("none": it settled before returning; "value": a
\* plain value, one turn of the job queue; "resolve" / "reject" / "never": a
\* promise that does so), and how its own promise settles ("pending" when the
\* awaited promise never settles).
\* `aw` is the value or reason the awaited promise settles with.
Fulfilled(v, n) ==
  [called |-> n, wait |-> "none", aw |-> Undefined, st |-> "fulfilled", val |-> v,
   new |-> NoObj]
FulfilledNew(o, n) ==
  [called |-> n, wait |-> "none", aw |-> Undefined, st |-> "fulfilled", val |-> o.id,
   new |-> o]
Rejected(x, n) ==
  [called |-> n, wait |-> "none", aw |-> Undefined, st |-> "rejected", val |-> x,
   new |-> NoObj]
Pending(n) ==
  [called |-> n, wait |-> "never", aw |-> Undefined, st |-> "pending", val |-> Undefined,
   new |-> NoObj]

\* `await c` where c is what a callback returned (or threw), followed by K on the
\* awaited value.  A throw or a rejection leaves the async function.
AwaitThen(c, n, K(_)) ==
  CASE c.type = "throw" -> Rejected(c.val, n)
    [] c.type = "ret" -> [K(c.val) EXCEPT !.wait = "value", !.aw = c.val]
    [] c.type = "promise" /\ c.settle = "resolve" ->
         [K(c.val) EXCEPT !.wait = "resolve", !.aw = c.val]
    [] c.type = "promise" /\ c.settle = "reject" ->
         [Rejected(c.val, n) EXCEPT !.wait = "reject", !.aw = c.val]
    [] OTHER -> Pending(n)

\* `return c` from an async function, c being the outcome of a synchronous call:
\* the promise follows what was returned.
ReturnFrom(c) ==
  CASE c.type = "throw" -> Rejected(c.val, c.called)
    [] c.type = "ret" -> [Fulfilled(c.val, c.called) EXCEPT !.new = c.new]
    [] c.type = "promise" /\ c.settle = "resolve" ->
         [Fulfilled(c.val, c.called) EXCEPT !.wait = "resolve", !.aw = c.val]
    [] c.type = "promise" /\ c.settle = "reject" ->
         [Rejected(c.val, c.called) EXCEPT !.wait = "reject", !.aw = c.val]
    [] OTHER -> Pending(c.called)

\* ------------------------------------------------------------------ Result (Ok / Err)
Ok(value, id) ==
  [id |-> id, cls |-> "Ok", isOk |-> TRUE, isErr |-> FALSE, value |-> value]
Err(error, id) ==
  [id |-> id, cls |-> "Err", isOk |-> FALSE, isErr |-> TRUE, error |-> error]
ok(value, fresh) == Ok(value, fresh)
err(error, fresh) == Err(error, fresh)
\* the Result a callback of class `kind` builds around x
MkResult(kind, x, fresh) == IF kind = "Ok" THEN ok(x, fresh) ELSE err(x, fresh)

Ok_unwrap(self) == Ret(self.value, 0)
\* an unwrapErr of Ok that answers the value instead of throwing
Ok_unwrapErr_value(self) == Ret(self.value, 0)
Ok_unwrapErr(self) == Throw(ErrUnwrapErrOnOk, 0)
Ok_unwrapOr(self, alternate) == Ret(self.value, 0)
Ok_unwrapOrElse(self, alter) == Ret(self.value, 0)
Ok_match(self, matcher) ==
  ReturnValue(Call(matcher.ok, self.value), 1)
\* a map whose new Ok misses the value of the callback
Ok_map_undefined(self, transform, fresh) ==
  LET c == Call(transform, self.value) IN
  IF c.type = "throw" THEN Throw(c.val, 1) ELSE RetNew(Ok(Undefined, fresh), 1)
Ok_map(self, transform, fresh) ==
  LET c == Call(transform, self.value) IN
  IF c.type = "throw" THEN Throw(c.val, 1) ELSE RetNew(Ok(c.val, fresh), 1)
\* a mapAsync that writes the new value into the receiver
Ok_mapAsync_inplace(self, transform, fresh) ==
  AwaitThen(Call(transform, self.value), 1, LAMBDA u : FulfilledNew(Ok(u, self.id), 1))
Ok_mapAsync(self, transform, fresh) ==
  AwaitThen(Call(transform, self.value), 1, LAMBDA u : FulfilledNew(Ok(u, fresh), 1))
Ok_mapErr(self, transform, fresh) == Ret(self.id, 0)
Ok_mapErrAsync(self, transform, fresh) == Fulfilled(self.id, 0)
\* an andThen that keeps the Ok when the callback returns an Err
Ok_andThen_keep(self, transform, fresh) ==
  LET c == Call(transform, self.value) IN
  IF c.type = "throw" THEN Throw(c.val, 1)
  ELSE IF transform.kind = "Err" THEN Ret(self.id, 1)
  ELSE RetNew(MkResult(transform.kind, c.val, fresh), 1)
Ok_andThen(self, transform, fresh) ==
  LET c == Call(transform, self.value) IN
  IF c.type = "throw" THEN Throw(c.val, 1)
  ELSE RetNew(MkResult(transform.kind, c.val, fresh), 1)
Ok_andThenAsync(self, transform, fresh) ==
  AwaitThen(Call(transform, self.value), 1, LAMBDA u : FulfilledNew(MkResult(transform.kind, u, fresh), 1))
Ok_orElse(self, alter, fresh) == Ret(self.id, 0)
Ok_orElseAsync(self, alter, fresh) == Fulfilled(self.id, 0)
Ok_and(self, replace) == Ret(replace.id, 0)
Ok_or(self, replace) == Ret(self.id, 0)
Ok_always(self) == Ret(self.id, 0)

Err_unwrap(self) == Throw(ErrUnwrapOnErr, 0)
Err_unwrapErr(self) == Ret(self.error, 0)
Err_unwrapOr(self, alternate) == ReturnValue(alternate, 0)
Err_unwrapOrElse(self, alter) ==
  ReturnValue(Call(alter, self.error), 1)
Err_match(self, matcher) ==
  ReturnValue(Call(matcher.err, self.error), 1)
\* a map of Err that transforms the error
Err_map_apply(self, transform, fresh) ==
  LET c == Call(transform, self.error) IN
  IF c.type = "throw" THEN Throw(c.val, 1) ELSE RetNew(Err(c.val, fresh), 1)
Err_map(self, transform, fresh) == Ret(self.id, 0)
Err_mapAsync(self, transform, fresh) == Fulfilled(self.id, 0)
Err_mapErr(self, transform, fresh) ==
  LET c == Call(transform, self.error) IN
  IF c.type = "throw" THEN Throw(c.val, 1) ELSE RetNew(Err(c.val, fresh), 1)
Err_mapErrAsync(self, transform, fresh) ==
  AwaitThen(Call(transform, self.error), 1, LAMBDA u : FulfilledNew(Err(u, fresh), 1))
Err_andThen(self, transform, fresh) == Ret(self.id, 0)
Err_andThenAsync(self, transform, fresh) == Fulfilled(self.id, 0)
Err_orElse(self, alter, fresh) ==
  LET c == Call(alter, self.error) IN
  IF c.type = "throw" THEN Throw(c.val, 1)
  ELSE RetNew(MkResult(alter.kind, c.val, fresh), 1)
Err_orElseAsync(self, alter, fresh) ==
  AwaitThen(Call(alter, self.error), 1, LAMBDA u : FulfilledNew(MkResult(alter.kind, u, fresh), 1))
Err_and(self, replace) == Ret(self.id, 0)
Err_or(self, replace) == Ret(replace.id, 0)
Err_never(self) == Ret(self.id, 0)
\* Result.challenge(f) without its try / catch: new Ok(f())
Result_challenge_nocatch(f, fresh) ==
  LET c == Call(f, Undefined) IN
  IF c.type = "throw" THEN Throw(c.val, 1) ELSE RetNew(Ok(c.val, fresh), 1)
\* Result.challenge(f): try { return new Ok(f()) } catch (e) { return new Err(e) }
Result_challenge(f, fresh) ==
  LET c == Call(f, Undefined) IN
  IF c.type = "throw" THEN RetNew(Err(c.val, fresh), 1) ELSE RetNew(Ok(c.val, fresh), 1)

\* ------------------------------------------------------------------ Option (Some / None)
Some(value, id) ==
  [id |-> id, cls |-> "Some", isSome |-> TRUE, isNone |-> FALSE, value |-> value]
None(id) == [id |-> id, cls |-> "None", isSome |-> FALSE, isNone |-> TRUE]
some(value, fresh) == Some(value, fresh)
\* const none_ = new None(): allocated once, when the module is loaded
none_ == None(0)
none == none_
\* the Option a callback of class `kind` builds around x
MkOption(kind, x, fresh) == IF kind = "Some" THEN some(x, fresh) ELSE none
\* the tuple [a, b] as a payload, and the argument pair (a, b) of a binary callback
Pair(a, b) == (MaxVal + 1) * (a + 1) + b
Call2(f, a, b) == Call(f, (2 * a + b) % (MaxVal + 1))

\* `return c` from an async function where c is what a callback returned: a plain
\* value settles the promise at once, a promise is followed.
ReturnThen(c, n, K(_)) ==
  IF c.type = "ret" THEN K(c.val) ELSE AwaitThen(c, n, K)

Some_unwrap(self) == Ret(self.value, 0)
\* unwrapOr written as `this.value || alternate`
Some_unwrapOr_falsy(self, alternate) ==
  IF Truthy(self.value) THEN Ret(self.value, 0) ELSE ReturnValue(alternate, 0)
Some_unwrapOr(self, alternate) == Ret(self.value, 0)
Some_unwrapOrElse(self, alter) == Ret(self.value, 0)
Some_match(self, matcher) ==
  ReturnValue(Call(matcher.some, self.value), 1)
Some_test(self, predicate) ==
  ReturnValue(Call(predicate, self.value), 1)
\* a map that catches what its callback throws and answers None
Some_map_catch(self, transform, fresh) ==
  LET c == Call(transform, self.value) IN
  IF c.type = "throw" THEN Ret(none_.id, 1) ELSE RetNew(some(c.val, fresh), 1)
Some_map(self, transform, fresh) ==
  LET c == Call(transform, self.value) IN
  IF c.type = "throw" THEN Throw(c.val, 1) ELSE RetNew(some(c.val, fresh), 1)
Some_andThen(self, transform, fresh) ==
  LET c == Call(transform, self.value) IN
  IF c.type = "throw" THEN Throw(c.val, 1)
  ELSE IF transform.kind = "Some" THEN RetNew(some(c.val, fresh), 1)
  ELSE Ret(none.id, 1)
Some_filter(self, predicate) ==
  LET c == Call(predicate, self.value) IN
  IF c.type = "throw" THEN Throw(c.val, 1)
  ELSE IF Truthy(c.val) THEN Ret(self.id, 1) ELSE Ret(none_.id, 1)
Some_insert(self, alternate, fresh) == Ret(self.id, 0)
Some_insertWith(self, alter, fresh) == Ret(self.id, 0)
Some_and(self, replace) == Ret(replace.id, 0)
Some_or(self, alternate) == Ret(self.id, 0)
Some_xor(self, other) == IF other.isNone THEN Ret(self.id, 0) ELSE Ret(none_.id, 0)
Some_orElse(self, alter, fresh) == Ret(self.id, 0)
\* a toResult of Some written like that of None
Some_toResult_err(self, createError, fresh) ==
  LET c == Call(createError, Undefined) IN
  IF c.type = "throw" THEN Throw(c.val, 1) ELSE RetNew(err(c.val, fresh), 1)
Some_toResult(self, createError, fresh) == RetNew(ok(self.value, fresh), 0)

None_never(self) == Ret(none_.id, 0)
None_unwrap(self) == Throw(ErrUnwrapNone, 0)
None_unwrapOr(self, alternate) == ReturnValue(alternate, 0)
None_unwrapOrElse(self, alter) ==
  ReturnValue(Call(alter, Undefined), 1)
None_match(self, matcher) ==
  ReturnValue(Call(matcher.none, Undefined), 1)
None_test(self, predicate) == Ret(False, 0)
\* a map of None that answers a new None()
None_map_new(self, transform, fresh) == RetNew(None(fresh), 0)
None_map(self, transform, fresh) == Ret(none_.id, 0)
None_andThen(self, transform, fresh) == Ret(none_.id, 0)
None_filter(self, predicate) == Ret(none_.id, 0)
None_insert(self, alternate, fresh) == RetNew(some(alternate, fresh), 0)
None_insertWith(self, alter, fresh) ==
  LET c == Call(alter, Undefined) IN
  IF c.type = "throw" THEN Throw(c.val, 1) ELSE RetNew(some(c.val, fresh), 1)
None_and(self, replace) == Ret(none_.id, 0)
None_or(self, alternate) == Ret(alternate.id, 0)
\* an xor of None written like its and
None_xor_none(self, other) == Ret(none_.id, 0)
None_xor(self, other) == Ret(other.id, 0)
None_orElse(self, alter, fresh) ==
  LET c == Call(alter, Undefined) IN
  IF c.type = "throw" THEN Throw(c.val, 1)
  ELSE IF alter.kind = "Some" THEN RetNew(some(c.val, fresh), 1)
  ELSE Ret(none.id, 1)
None_zip(self, other, fresh) == Ret(none_.id, 0)
None_zipWith(self, other, transform, fresh) == Ret(none_.id, 0)
None_toResult(self, createError, fresh) ==
  LET c == Call(createError, Undefined) IN
  IF c.type = "throw" THEN Throw(c.val, 1) ELSE RetNew(err(c.val, fresh), 1)

\* zip and zipWith of Some go through other.map(...)
Some_zip(self, other, fresh) ==
  IF other.isSome THEN RetNew(some(Pair(self.value, other.value), fresh), 0)
  ELSE None_map(other, [mode |-> "ret", g |-> "id", kind |-> "Some"], fresh)
\* a zipWith that hands the value of the argument to the callback first
Some_zipWith_swapped(self, other, transform, fresh) ==
  IF other.isSome
  THEN LET c == Call2(transform, other.value, self.value) IN
       IF c.type = "throw" THEN Throw(c.val, 1) ELSE RetNew(some(c.val, fresh), 1)
  ELSE None_map(other, transform, fresh)
Some_zipWith(self, other, transform, fresh) ==
  IF other.isSome
  THEN LET c == Call2(transform, self.value, other.value) IN
       IF c.type = "throw" THEN Throw(c.val, 1) ELSE RetNew(some(c.val, fresh), 1)
  ELSE None_map(other, transform, fresh)

Some_testAsync(self, predicate) ==
  ReturnThen(Call(predicate, self.value), 1, LAMBDA u : Fulfilled(u, 1))
Some_mapAsync(self, transform, fresh) ==
  AwaitThen(Call(transform, self.value), 1, LAMBDA u : FulfilledNew(some(u, fresh), 1))
Some_andThenAsync(self, transform, fresh) ==
  ReturnThen(Call(transform, self.value), 1, LAMBDA u : IF transform.kind = "Some" THEN FulfilledNew(some(u, fresh), 1)
                        ELSE Fulfilled(none.id, 1))
Some_insertWithAsync(self, alter, fresh) == Fulfilled(self.id, 0)
\* an orElseAsync that evaluates the fallback before it returns the receiver
Some_orElseAsync_eager(self, alter, fresh) ==
  AwaitThen(Call(alter, Undefined), 1, LAMBDA u : Fulfilled(self.id, 1))
Some_orElseAsync(self, alter, fresh) == Fulfilled(self.id, 0)
Some_zipWithAsync(self, other, transform, fresh) ==
  IF other.isNone THEN [Fulfilled(none_.id, 0) EXCEPT !.wait = "value", !.aw = other.id]
  ELSE LET r == AwaitThen(Call2(transform, self.value, other.value), 1, LAMBDA u : FulfilledNew(some(u, fresh), 1))
       IN IF r.wait = "none" THEN [r EXCEPT !.wait = "value"] ELSE r
\* a filterAsync that tests the promise (always truthy) instead of what it resolves to
Some_filterAsync_keep(self, predicate) ==
  AwaitThen(Call(predicate, self.value), 1, LAMBDA u : Fulfilled(self.id, 1))
Some_filterAsync(self, predicate) ==
  AwaitThen(Call(predicate, self.value), 1, LAMBDA u : IF Truthy(u) THEN Fulfilled(self.id, 1) ELSE Fulfilled(none_.id, 1))
Some_toResultAsync(self, createError, fresh) == FulfilledNew(ok(self.value, fresh), 0)

None_testAsync(self, predicate) == Fulfilled(False, 0)
\* a mapAsync of None that still awaits its callback
None_mapAsync_await(self, transform, fresh) ==
  AwaitThen(Call(transform, Undefined), 1, LAMBDA u : Fulfilled(none_.id, 1))
None_mapAsync(self, transform, fresh) == Fulfilled(none_.id, 0)
None_andThenAsync(self, transform, fresh) == Fulfilled(none_.id, 0)
None_insertWithAsync(self, alter, fresh) ==
  AwaitThen(Call(alter, Undefined), 1, LAMBDA u : FulfilledNew(some(u, fresh), 1))
None_orElseAsync(self, alter, fresh) ==
  ReturnThen(Call(alter, Undefined), 1, LAMBDA u : IF alter.kind = "Some" THEN FulfilledNew(some(u, fresh), 1)
                        ELSE Fulfilled(none.id, 1))
None_zipWithAsync(self, other, transform, fresh) == Fulfilled(none_.id, 0)
None_filterAsync(self, predicate) == Fulfilled(none_.id, 0)
None_toResultAsync(self, createError, fresh) ==
  AwaitThen(Call(createError, Undefined), 1, LAMBDA u : FulfilledNew(err(u, fresh), 1))

\* Result methods of the last version of the class, known from its tests only
Ok_test(self, predicate) == ReturnValue(Call(predicate, self.value), 1)
Err_test(self, predicate) == Ret(False, 0)
Ok_testAsync(self, predicate) ==
  ReturnThen(Call(predicate, self.value), 1, LAMBDA u : Fulfilled(u, 1))
Err_testAsync(self, predicate) == Fulfilled(False, 0)
Ok_toOption(self, fresh) == RetNew(some(self.value, fresh), 0)
Err_toOption(self, fresh) == Ret(none.id, 0)
Ok_try(self, f, fresh) ==
  LET c == Call(f, self.value) IN
  IF c.type = "throw" THEN RetNew(err(c.val, fresh), 1)
  ELSE RetNew(MkResult(f.kind, c.val, fresh), 1)
Err_try(self, f, fresh) == Ret(self.id, 0)
Ok_tryAsync(self, f, fresh) ==
  LET c == Call(f, self.value) IN
  CASE c.type = "throw" -> FulfilledNew(err(c.val, fresh), 1)
    [] c.type = "promise" /\ c.settle = "reject" ->
         [FulfilledNew(err(c.val, fresh), 1) EXCEPT !.wait = "reject", !.aw = c.val]
    [] OTHER -> AwaitThen(c, 1, LAMBDA u : FulfilledNew(MkResult(f.kind, u, fresh), 1))
Err_tryAsync(self, f, fresh) == Fulfilled(self.id, 0)

\* toAsync(): Promise.resolve(this)
Resolve(v) == [st |-> "fulfilled", val |-> v]
Ok_toAsync(self) == Resolve(self.id)
\* a toAsync of Err that rejects with the error: Promise.reject(this.error)
Err_toAsync_reject(self) == [st |-> "rejected", val |-> self.error]
Err_toAsync(self) == Resolve(self.id)
Some_toAsync(self) == Resolve(self.id)
None_toAsync(self) == Resolve(self.id)

\* ------------------------------------------------------------------ AsyncResult
\* Each method is given as what runs once `await this.promise` has produced r.
\* an argument `x | Promise<x>`: a plain value or a promise, like what a callback returns
ArgValue(a) == Call(a, Undefined)
\* the object o is allocated only if the outcome refers to it
WithNew(c, o) == IF c.val = o.id /\ c.st = "fulfilled" THEN [c EXCEPT !.new = o] ELSE c

AsyncResult_unwrap(r) == ReturnFrom(IF r.isOk THEN Ok_unwrap(r) ELSE Err_unwrap(r))
AsyncResult_unwrapErr(r) == ReturnFrom(IF r.isOk THEN Ok_unwrapErr(r) ELSE Err_unwrapErr(r))
\* an unwrapOr that awaits its alternate before it looks at the result:
\* (await this.promise).unwrapOr(await alternate)
AsyncResult_unwrapOr_await(r, alternate) ==
  AwaitThen(ArgValue(alternate), 0,
            LAMBDA u : ReturnFrom(IF r.isOk THEN Ok_unwrapOrElse(r, alternate) ELSE Ret(u, 0)))
AsyncResult_unwrapOr(r, alternate) ==
  IF r.isOk THEN ReturnFrom(Ok_unwrapOrElse(r, alternate))
  ELSE AwaitThen(ArgValue(alternate), 0, LAMBDA u : Fulfilled(u, 0))
AsyncResult_unwrapOrElse(r, alter) ==
  ReturnFrom(IF r.isOk THEN Ok_unwrapOrElse(r, alter) ELSE Err_unwrapOrElse(r, alter))
AsyncResult_match(r, matcher) ==
  ReturnFrom(IF r.isOk THEN Ok_match(r, matcher) ELSE Err_match(r, matcher))
AsyncResult_map(r, transform, fresh) ==
  IF r.isOk THEN Ok_mapAsync(r, transform, fresh) ELSE Err_mapAsync(r, transform, fresh)
AsyncResult_mapErr(r, transform, fresh) ==
  IF r.isOk THEN Ok_mapErrAsync(r, transform, fresh) ELSE Err_mapErrAsync(r, transform, fresh)
AsyncResult_andThen(r, transform, fresh) ==
  IF r.isOk THEN Ok_andThenAsync(r, transform, fresh)
  ELSE Err_andThenAsync(r, transform, fresh)
AsyncResult_orElse(r, transform, fresh) ==
  IF r.isOk THEN Ok_orElseAsync(r, transform, fresh)
  ELSE Err_orElseAsync(r, transform, fresh)
\* an `and` that looks at its argument only on Ok
AsyncResult_and_lazy(r, replace, fresh) ==
  IF r.isOk
  THEN AwaitThen(ArgValue(replace), 0,
                 LAMBDA u : LET o == MkResult(replace.kind, u, fresh)
                            IN WithNew(ReturnFrom(Ok_and(r, o)), o))
  ELSE Fulfilled(r.id, 0)
AsyncResult_and(r, replace, fresh) ==
  AwaitThen(ArgValue(replace), 0,
            LAMBDA u : LET o == MkResult(replace.kind, u, fresh)
                       IN WithNew(ReturnFrom(IF r.isOk THEN Ok_and(r, o) ELSE Err_and(r, o)), o))
AsyncResult_or(r, alternate, fresh) ==
  AwaitThen(ArgValue(alternate), 0,
            LAMBDA u : LET o == MkResult(alternate.kind, u, fresh)
                       IN WithNew(ReturnFrom(IF r.isOk THEN Ok_or(r, o) ELSE Err_or(r, o)), o))
\* try(f) that runs andThenAsync, which has no catch
AsyncResult_try_andThen(r, f, fresh) ==
  IF r.isOk THEN Ok_andThenAsync(r, f, fresh) ELSE Err_andThenAsync(r, f, fresh)
AsyncResult_try(r, f, fresh) ==
  IF r.isOk THEN Ok_tryAsync(r, f, fresh) ELSE Err_tryAsync(r, f, fresh)
AsyncResult_test(r, predicate) ==
  IF r.isOk THEN Ok_testAsync(r, predicate) ELSE Err_testAsync(r, predicate)
\* toOptionPromise(), and the promise toAsyncOption() wraps:
\* (await this.promise).toOption()
AsyncResult_toOptionPromise(r, fresh) ==
  ReturnFrom(IF r.isOk THEN Ok_toOption(r, fresh) ELSE Err_toOption(r, fresh))
\* challenge(f) of the first AsyncResult: try { return ok(await f()) } catch (e) { return err(e) }
AsyncResult_challenge(f, fresh) ==
  LET c == Call(f, Undefined) IN
  CASE c.type = "throw" -> FulfilledNew(err(c.val, fresh), 1)
    [] c.type = "promise" /\ c.settle = "reject" ->
         [FulfilledNew(err(c.val, fresh), 1) EXCEPT !.wait = "reject", !.aw = c.val]
    [] OTHER -> AwaitThen(c, 1, LAMBDA u : FulfilledNew(ok(u, fresh), 1))
\* static try(f) without its try / catch: ok(await f())
AsyncResult_static_try_nocatch(f, fresh) ==
  AwaitThen(Call(f, Undefined), 1, LAMBDA u : FulfilledNew(ok(u, fresh), 1))
\* static try(f): try { return ok(await f()) } catch (e) { return err(e) }
AsyncResult_static_try(f, fresh) ==
  LET c == Call(f, Undefined) IN
  CASE c.type = "throw" -> FulfilledNew(err(c.val, fresh), 1)
    [] c.type = "promise" /\ c.settle = "reject" ->
         [FulfilledNew(err(c.val, fresh), 1) EXCEPT !.wait = "reject", !.aw = c.val]
    [] OTHER -> AwaitThen(c, 1, LAMBDA u : FulfilledNew(ok(u, fresh), 1))

\* ------------------------------------------------------------------ AsyncOption
\* an unwrap that answers undefined on None instead of rejecting
AsyncOption_unwrap_undefined(op) ==
  IF op.isSome THEN ReturnFrom(Some_unwrap(op)) ELSE Fulfilled(Undefined, 0)
AsyncOption_unwrap(op) == ReturnFrom(IF op.isSome THEN Some_unwrap(op) ELSE None_unwrap(op))
\* a conversion that calls onError before it looks at the Option
AsyncOption_toResultPromise_eager(op, onError, fresh) ==
  IF op.isSome
  THEN AwaitThen(Call(onError, Undefined), 1, LAMBDA u : FulfilledNew(ok(op.value, fresh), 1))
  ELSE None_toResultAsync(op, onError, fresh)
\* toResultPromise(onError), and the promise toAsyncResult(onError) wraps:
\* (await this.promise).toResultAsync(onError)
AsyncOption_toResultPromise(op, onError, fresh) ==
  IF op.isSome THEN Some_toResultAsync(op, onError, fresh)
  ELSE None_toResultAsync(op, onError, fresh)
AsyncOption_unwrapOr(op, alternate) ==
  ReturnFrom(IF op.isSome THEN Some_unwrapOr(op, ArgValue(alternate))
             ELSE None_unwrapOr(op, ArgValue(alternate)))
AsyncOption_unwrapOrElse(op, alter) ==
  ReturnFrom(IF op.isSome THEN Some_unwrapOrElse(op, alter) ELSE None_unwrapOrElse(op, alter))
AsyncOption_match(op, matcher) ==
  ReturnFrom(IF op.isSome THEN Some_match(op, matcher) ELSE None_match(op, matcher))
AsyncOption_test(op, predicate) ==
  IF op.isSome THEN Some_testAsync(op, predicate) ELSE None_testAsync(op, predicate)
AsyncOption_map(op, transform, fresh) ==
  IF op.isSome THEN Some_mapAsync(op, transform, fresh) ELSE None_mapAsync(op, transform, fresh)
AsyncOption_andThen(op, transform, fresh) ==
  IF op.isSome THEN Some_andThenAsync(op, transform, fresh)
  ELSE None_andThenAsync(op, transform, fresh)
AsyncOption_filter(op, predicate) ==
  IF op.isSome THEN Some_filterAsync(op, predicate) ELSE None_filterAsync(op, predicate)
AsyncOption_insert(op, alternate, fresh) ==
  AwaitThen(ArgValue(alternate), 0,
            LAMBDA u : ReturnFrom(IF op.isSome THEN Some_insert(op, u, fresh)
                                  ELSE None_insert(op, u, fresh)))
AsyncOption_insertWith(op, alter, fresh) ==
  IF op.isSome THEN Some_insertWithAsync(op, alter, fresh)
  ELSE None_insertWithAsync(op, alter, fresh)
AsyncOption_orElse(op, alter, fresh) ==
  IF op.isSome THEN Some_orElseAsync(op, alter, fresh) ELSE None_orElseAsync(op, alter, fresh)
AsyncOption_and(op, replace, fresh) ==
  AwaitThen(ArgValue(replace), 0,
            LAMBDA u : LET o == MkOption(replace.kind, u, fresh)
                       IN WithNew(ReturnFrom(IF op.isSome THEN Some_and(op, o)
                                             ELSE None_and(op, o)), o))
AsyncOption_or(op, alternate, fresh) ==
  AwaitThen(ArgValue(alternate), 0,
            LAMBDA u : LET o == MkOption(alternate.kind, u, fresh)
                       IN WithNew(ReturnFrom(IF op.isSome THEN Some_or(op, o)
                                             ELSE None_or(op, o)), o))
AsyncOption_xor(op, other, fresh) ==
  AwaitThen(ArgValue(other), 0,
            LAMBDA u : LET o == MkOption(other.kind, u, fresh)
                       IN WithNew(ReturnFrom(IF op.isSome THEN Some_xor(op, o)
                                             ELSE None_xor(op, o)), o))

\* ------------------------------------------------------------------ state
VARIABLES
  heap,     \* address -> object (Some, None, Ok, Err) or Free
  node,     \* stage -> the asynchronous container (or the promise of a terminal
            \* call) created there: class, operation, parent, argument, position
  promise,  \* stage -> the promise the container wraps
  user,     \* stage -> the promise the callback (or the argument) supplied
  calls,    \* stage -> how often the callback of the stage was invoked
  last      \* the last synchronous call: receiver, method, argument, outcome

vars == <<heap, node, promise, user, calls, last>>

Stages == 1..MaxStages
NoFn == [mode |-> "none"]
NoRef == MaxStages + 100
\* no synchronous call made yet
NoCall ==
  [op |-> "no call", recv |-> NoRef, arg |-> NoFn, other |-> NoRef, out |-> Ret(Undefined, 0)]
Unused == [cls |-> "Unused"]
NoPromise == [st |-> "none", val |-> Undefined]
PendingPromise == [st |-> "pending", val |-> Undefined]
Settled(p) == p.st \in {"fulfilled", "rejected"}

Fresh(h) == CHOOSE i \in ObjIds : h[i] = Free /\ \A j \in ObjIds : j < i => h[j] # Free
HasFree(h) == \E i \in ObjIds : h[i] = Free
Alloc(h, o) == IF o = NoObj THEN h ELSE [h EXCEPT ![o.id] = o]
Used(s) == node[s] # Unused
NextStage == CHOOSE s \in Stages : ~Used(s) /\ \A t \in Stages : t < s => Used(t)
HasStage == \E s \in Stages : ~Used(s)
\* a run builds its containers from one root container
NoRoot == \A s \in Stages : ~Used(s)
\* a run either makes synchronous calls or builds asynchronous containers
Start == NoRoot /\ last = NoCall

\* operations by the class of the receiver and the kind of their argument
ResultCombinators == {"map", "mapErr", "andThen", "orElse", "and", "or", "try"}
ResultTerminals == {"unwrap", "unwrapErr", "unwrapOr", "unwrapOrElse", "match", "test"}
OptionCombinators ==
  {"map", "andThen", "filter", "insert", "insertWith", "orElse", "and", "or", "xor"}
OptionTerminals == {"unwrap", "unwrapOr", "unwrapOrElse", "match", "test"}

ValueFns == {[mode |-> m, g |-> "inc", kind |-> "val"] : m \in Modes}
ResultFns == {[mode |-> m, g |-> "inc", kind |-> k] : m \in Modes, k \in {"Ok", "Err"}}
OptionFns ==
  {[mode |-> m, g |-> "inc", kind |-> "Some"] : m \in Modes}
    \cup {[mode |-> m, g |-> "zero", kind |-> "None"] : m \in Modes \ {"throw", "reject"}}
ValueArgs == {[mode |-> m, g |-> "inc", kind |-> "val"] : m \in Modes \ {"throw"}}
ResultArgs ==
  {[mode |-> m, g |-> "inc", kind |-> k] : m \in Modes \ {"throw"}, k \in {"Ok", "Err"}}
OptionArgs ==
  {[mode |-> m, g |-> "inc", kind |-> "Some"] : m \in Modes \ {"throw"}}
    \cup {[mode |-> m, g |-> "zero", kind |-> "None"] : m \in {"ret", "resolve"}}
ResultMatchers ==
  {[ok |-> [mode |-> m, g |-> "inc", kind |-> "val"],
    err |-> [mode |-> m, g |-> "id", kind |-> "val"]] : m \in Modes}
OptionMatchers ==
  {[some |-> [mode |-> m, g |-> "inc", kind |-> "val"],
    none |-> [mode |-> m, g |-> "id", kind |-> "val"]] : m \in Modes}

Args(cls, op) ==
  CASE op \in {"unwrap", "unwrapErr", "toOptionPromise", "toAsyncOption"} -> {NoFn}
    [] op \in {"toResultPromise", "toAsyncResult"} -> ValueFns
    [] op \in {"unwrapOr", "insert"} -> ValueArgs
    [] op \in {"map", "mapErr", "unwrapOrElse", "test", "filter", "insertWith"} -> ValueFns
    [] op = "match" -> IF cls = "AsyncResult" THEN ResultMatchers ELSE OptionMatchers
    [] op \in {"and", "or", "xor"} -> IF cls = "AsyncResult" THEN ResultArgs ELSE OptionArgs
    [] OTHER -> IF cls = "AsyncResult" THEN ResultFns ELSE OptionFns

\* what the method `op` of an AsyncResult / AsyncOption runs on the awaited r
ResultStep(op, r, a, fresh) ==
  CASE op = "unwrap" -> AsyncResult_unwrap(r)
    [] op = "unwrapErr" -> AsyncResult_unwrapErr(r)
    [] op = "unwrapOr" -> AsyncResult_unwrapOr(r, a)
    [] op = "unwrapOrElse" -> AsyncResult_unwrapOrElse(r, a)
    [] op = "match" -> AsyncResult_match(r, a)
    [] op = "test" -> AsyncResult_test(r, a)
    [] op = "map" -> AsyncResult_map(r, a, fresh)
    [] op = "mapErr" -> AsyncResult_mapErr(r, a, fresh)
    [] op = "andThen" -> AsyncResult_andThen(r, a, fresh)
    [] op = "orElse" -> AsyncResult_orElse(r, a, fresh)
    [] op = "and" -> AsyncResult_and(r, a, fresh)
    [] op = "or" -> AsyncResult_or(r, a, fresh)
    [] op = "try" -> AsyncResult_try(r, a, fresh)
    [] op \in {"toOptionPromise", "toAsyncOption"} -> AsyncResult_toOptionPromise(r, fresh)
OptionStep(op, r, a, fresh) ==
  CASE op = "unwrap" -> AsyncOption_unwrap(r)
    [] op = "unwrapOr" -> AsyncOption_unwrapOr(r, a)
    [] op = "unwrapOrElse" -> AsyncOption_unwrapOrElse(r, a)
    [] op = "match" -> AsyncOption_match(r, a)
    [] op = "test" -> AsyncOption_test(r, a)
    [] op = "map" -> AsyncOption_map(r, a, fresh)
    [] op = "andThen" -> AsyncOption_andThen(r, a, fresh)
    [] op = "filter" -> AsyncOption_filter(r, a)
    [] op = "insert" -> AsyncOption_insert(r, a, fresh)
    [] op = "insertWith" -> AsyncOption_insertWith(r, a, fresh)
    [] op = "orElse" -> AsyncOption_orElse(r, a, fresh)
    [] op = "and" -> AsyncOption_and(r, a, fresh)
    [] op = "or" -> AsyncOption_or(r, a, fresh)
    [] op = "xor" -> AsyncOption_xor(r, a, fresh)
    [] op \in {"toResultPromise", "toAsyncResult"} -> AsyncOption_toResultPromise(r, a, fresh)
Step(cls, op, r, a, fresh) ==
  IF cls = "AsyncResult" THEN ResultStep(op, r, a, fresh) ELSE OptionStep(op, r, a, fresh)

Init ==
  /\ heap = [i \in ObjIds |-> IF i = none_.id THEN none_ ELSE Free]
  /\ node = [s \in Stages |-> Unused]
  /\ promise = [s \in Stages |-> NoPromise]
  /\ user = [s \in Stages |-> NoPromise]
  /\ calls = [s \in Stages |-> 0]
  /\ last = NoCall

\* ------------------------------------------------------------------ synchronous calls
\* number of Option / Result objects one run of synchronous calls allocates
MaxObjs == 3
NoArg == NoFn
IsOption(o) == o.cls \in {"Some", "None"}
IsResult(o) == o.cls \in {"Ok", "Err"}
\* the settled (or pending) promise p as the outcome of the call that returned it
OfPromise(p) ==
  [called |-> 0, wait |-> "none", aw |-> Undefined, st |-> p.st, val |-> p.val, new |-> NoObj]

OptionSync ==
  {"unwrap", "unwrapOr", "unwrapOrElse", "match", "test", "map", "andThen", "filter",
   "insert", "insertWith", "and", "or", "xor", "orElse", "zip", "zipWith", "toResult",
   "never"}
OptionAsync ==
  {"testAsync", "mapAsync", "andThenAsync", "insertWithAsync", "orElseAsync",
   "zipWithAsync", "filterAsync", "toResultAsync", "toAsync"}
ResultSync ==
  {"unwrap", "unwrapErr", "unwrapOr", "unwrapOrElse", "match", "map", "mapErr", "andThen",
   "orElse", "and", "or", "always", "never", "test", "toOption", "try"}
ResultAsync ==
  {"mapAsync", "mapErrAsync", "andThenAsync", "orElseAsync", "testAsync", "tryAsync",
   "toAsync"}
Binary == {"and", "or", "xor", "zip", "zipWith", "zipWithAsync"}

\* self.op(a) / self.op(other) / self.op(other, a) on an Option
OptionCall(op, self, a, other, fresh) ==
  CASE op = "unwrap" -> IF self.isSome THEN Some_unwrap(self) ELSE None_unwrap(self)
    [] op = "unwrapOr" ->
         IF self.isSome THEN Some_unwrapOr(self, ArgValue(a)) ELSE None_unwrapOr(self, ArgValue(a))
    [] op = "unwrapOrElse" ->
         IF self.isSome THEN Some_unwrapOrElse(self, a) ELSE None_unwrapOrElse(self, a)
    [] op = "match" -> IF self.isSome THEN Some_match(self, a) ELSE None_match(self, a)
    [] op = "test" -> IF self.isSome THEN Some_test(self, a) ELSE None_test(self, a)
    [] op = "map" -> IF self.isSome THEN Some_map(self, a, fresh) ELSE None_map(self, a, fresh)
    [] op = "andThen" ->
         IF self.isSome THEN Some_andThen(self, a, fresh) ELSE None_andThen(self, a, fresh)
    [] op = "filter" -> IF self.isSome THEN Some_filter(self, a) ELSE None_filter(self, a)
    [] op = "insert" ->
         IF self.isSome THEN Some_insert(self, ArgValue(a).val, fresh)
         ELSE None_insert(self, ArgValue(a).val, fresh)
    [] op = "insertWith" ->
         IF self.isSome THEN Some_insertWith(self, a, fresh) ELSE None_insertWith(self, a, fresh)
    [] op = "and" -> IF self.isSome THEN Some_and(self, other) ELSE None_and(self, other)
    [] op = "or" -> IF self.isSome THEN Some_or(self, other) ELSE None_or(self, other)
    [] op = "xor" -> IF self.isSome THEN Some_xor(self, other) ELSE None_xor(self, other)
    [] op = "orElse" ->
         IF self.isSome THEN Some_orElse(self, a, fresh) ELSE None_orElse(self, a, fresh)
    [] op = "zip" ->
         IF self.isSome THEN Some_zip(self, other, fresh) ELSE None_zip(self, other, fresh)
    [] op = "zipWith" ->
         IF self.isSome THEN Some_zipWith(self, other, a, fresh)
         ELSE None_zipWith(self, other, a, fresh)
    [] op = "toResult" ->
         IF self.isSome THEN Some_toResult(self, a, fresh) ELSE None_toResult(self, a, fresh)
    [] op = "never" -> None_never(self)
    [] op = "testAsync" ->
         IF self.isSome THEN Some_testAsync(self, a) ELSE None_testAsync(self, a)
    [] op = "mapAsync" ->
         IF self.isSome THEN Some_mapAsync(self, a, fresh) ELSE None_mapAsync(self, a, fresh)
    [] op = "andThenAsync" ->
         IF self.isSome THEN Some_andThenAsync(self, a, fresh)
         ELSE None_andThenAsync(self, a, fresh)
    [] op = "insertWithAsync" ->
         IF self.isSome THEN Some_insertWithAsync(self, a, fresh)
         ELSE None_insertWithAsync(self, a, fresh)
    [] op = "orElseAsync" ->
         IF self.isSome THEN Some_orElseAsync(self, a, fresh)
         ELSE None_orElseAsync(self, a, fresh)
    [] op = "zipWithAsync" ->
         IF self.isSome THEN Some_zipWithAsync(self, other, a, fresh)
         ELSE None_zipWithAsync(self, other, a, fresh)
    [] op = "filterAsync" ->
         IF self.isSome THEN Some_filterAsync(self, a) ELSE None_filterAsync(self, a)
    [] op = "toResultAsync" ->
         IF self.isSome THEN Some_toResultAsync(self, a, fresh)
         ELSE None_toResultAsync(self, a, fresh)
    [] op = "toAsync" ->
         OfPromise(IF self.isSome THEN Some_toAsync(self) ELSE None_toAsync(self))

\* self.op(a) / self.op(other) on a Result
ResultCall(op, self, a, other, fresh) ==
  CASE op = "unwrap" -> IF self.isOk THEN Ok_unwrap(self) ELSE Err_unwrap(self)
    [] op = "unwrapErr" -> IF self.isOk THEN Ok_unwrapErr(self) ELSE Err_unwrapErr(self)
    [] op = "unwrapOr" ->
         IF self.isOk THEN Ok_unwrapOr(self, ArgValue(a)) ELSE Err_unwrapOr(self, ArgValue(a))
    [] op = "unwrapOrElse" ->
         IF self.isOk THEN Ok_unwrapOrElse(self, a) ELSE Err_unwrapOrElse(self, a)
    [] op = "match" -> IF self.isOk THEN Ok_match(self, a) ELSE Err_match(self, a)
    [] op = "map" -> IF self.isOk THEN Ok_map(self, a, fresh) ELSE Err_map(self, a, fresh)
    [] op = "mapErr" ->
         IF self.isOk THEN Ok_mapErr(self, a, fresh) ELSE Err_mapErr(self, a, fresh)
    [] op = "andThen" ->
         IF self.isOk THEN Ok_andThen(self, a, fresh) ELSE Err_andThen(self, a, fresh)
    [] op = "orElse" ->
         IF self.isOk THEN Ok_orElse(self, a, fresh) ELSE Err_orElse(self, a, fresh)
    [] op = "and" -> IF self.isOk THEN Ok_and(self, other) ELSE Err_and(self, other)
    [] op = "or" -> IF self.isOk THEN Ok_or(self, other) ELSE Err_or(self, other)
    [] op = "always" -> Ok_always(self)
    [] op = "never" -> Err_never(self)
    [] op = "test" -> IF self.isOk THEN Ok_test(self, a) ELSE Err_test(self, a)
    [] op = "toOption" -> IF self.isOk THEN Ok_toOption(self, fresh) ELSE Err_toOption(self, fresh)
    [] op = "try" -> IF self.isOk THEN Ok_try(self, a, fresh) ELSE Err_try(self, a, fresh)
    [] op = "mapAsync" ->
         IF self.isOk THEN Ok_mapAsync(self, a, fresh) ELSE Err_mapAsync(self, a, fresh)
    [] op = "mapErrAsync" ->
         IF self.isOk THEN Ok_mapErrAsync(self, a, fresh) ELSE Err_mapErrAsync(self, a, fresh)
    [] op = "andThenAsync" ->
         IF self.isOk THEN Ok_andThenAsync(self, a, fresh) ELSE Err_andThenAsync(self, a, fresh)
    [] op = "orElseAsync" ->
         IF self.isOk THEN Ok_orElseAsync(self, a, fresh) ELSE Err_orElseAsync(self, a, fresh)
    [] op = "testAsync" -> IF self.isOk THEN Ok_testAsync(self, a) ELSE Err_testAsync(self, a)
    [] op = "tryAsync" ->
         IF self.isOk THEN Ok_tryAsync(self, a, fresh) ELSE Err_tryAsync(self, a, fresh)
    [] op = "toAsync" -> OfPromise(IF self.isOk THEN Ok_toAsync(self) ELSE Err_toAsync(self))

\* the methods an object has, and the arguments a synchronous call is tried with
Methods(o) ==
  CASE o.cls = "Some" -> (OptionSync \ {"never"}) \cup OptionAsync
    [] o.cls = "None" -> OptionSync \cup OptionAsync
    [] o.cls = "Ok" -> (ResultSync \ {"never"}) \cup ResultAsync
    [] o.cls = "Err" -> (ResultSync \ {"always"}) \cup ResultAsync
\* v => v
Identity == [mode |-> "ret", g |-> "id", kind |-> "val"]
OfMode(S, M) == {f \in S : f.mode \in M}
SyncMatchers(S) == {m \in S : m[CHOOSE k \in DOMAIN m : TRUE].mode \in SyncModes}
SyncArgs(o, op) ==
  CASE op \in {"unwrap", "unwrapErr", "never", "always", "toOption", "toAsync"}
         \cup (Binary \ {"zipWith", "zipWithAsync"}) -> {NoArg}
    [] op \in {"unwrapOr", "insert"} -> OfMode(ValueArgs, {"ret"})
    [] op = "map" -> OfMode(ValueFns, SyncModes) \cup {Identity}
    [] op \in {"unwrapOrElse", "test", "mapErr", "filter", "insertWith", "zipWith",
               "toResult"} -> OfMode(ValueFns, SyncModes)
    [] op \in {"andThen", "orElse", "try"} ->
         OfMode(IF IsResult(o) THEN ResultFns ELSE OptionFns, SyncModes)
    [] op = "match" -> SyncMatchers(IF IsResult(o) THEN ResultMatchers ELSE OptionMatchers)
    [] op \in {"andThenAsync", "orElseAsync", "tryAsync"} ->
         IF IsResult(o) THEN ResultFns ELSE OptionFns
    [] OTHER -> ValueFns

\* some(v), ok(v), err(e): a new object
Construct(c, v) ==
  /\ NoRoot /\ Fresh(heap) <= MaxObjs
  /\ LET o == CASE c = "Some" -> some(v, Fresh(heap))
                [] c = "Ok" -> ok(v, Fresh(heap))
                [] c = "Err" -> err(v, Fresh(heap))
     IN /\ heap' = Alloc(heap, o)
        /\ last' = [op |-> c, recv |-> NoRef, arg |-> NoArg, other |-> NoRef,
                    out |-> RetNew(o, 0)]
  /\ UNCHANGED <<node, promise, user, calls>>

\* none(): the one None
CallNone ==
  /\ NoRoot
  /\ last' = [op |-> "none", recv |-> NoRef, arg |-> NoArg, other |-> NoRef,
              out |-> Ret(none.id, 0)]
  /\ UNCHANGED <<heap, node, promise, user, calls>>

\* Result.challenge(f): a static call with a callback that returns or throws
Challenge(f) ==
  /\ NoRoot /\ Fresh(heap) <= MaxObjs
  /\ LET q == Result_challenge(f, Fresh(heap))
     IN /\ heap' = Alloc(heap, q.new)
        /\ last' = [op |-> "challenge", recv |-> NoRef, arg |-> f, other |-> NoRef,
                    out |-> q]
  /\ UNCHANGED <<node, promise, user, calls>>

\* the objects `other` of a binary method of o: the Options / Results made before
Others(o, op) ==
  IF op \in Binary THEN {j \in ObjIds : heap[j] # Free /\ IsOption(heap[j]) = IsOption(o)}
  ELSE {o.id}

\* heap[i].op(...): a method call on an object made before; an async method is
\* followed up to the settling of the promise it returns
SyncCall(i) ==
  /\ NoRoot /\ Fresh(heap) <= MaxObjs
  /\ heap[i] # Free
  /\ \E op \in Methods(heap[i]) :
       \E a \in SyncArgs(heap[i], op), j \in Others(heap[i], op) :
         LET q == IF IsOption(heap[i])
                  THEN OptionCall(op, heap[i], a, heap[j], Fresh(heap))
                  ELSE ResultCall(op, heap[i], a, heap[j], Fresh(heap))
         IN /\ heap' = Alloc(heap, q.new)
            /\ last' = [op |-> op, recv |-> i, arg |-> a, other |-> j, out |-> q]
  /\ UNCHANGED <<node, promise, user, calls>>

NextSync ==
  \/ \E c \in {"Some", "Ok", "Err"}, v \in Vals : Construct(c, v)
  \/ CallNone
  \/ \E f \in OfMode(ValueFns, SyncModes) : Challenge(f)
  \/ \E i \in ObjIds : SyncCall(i)
SpecSync == Init /\ [][NextSync]_vars

\* ------------------------------------------------------------------ asynchronous containers
Container(cls, op, parent, pc) ==
  [cls |-> cls, op |-> op, parent |-> parent, arg |-> NoFn, pc |-> pc, seen |-> NoRef]
IsContainer(s) == Used(s) /\ node[s].cls \in {"AsyncResult", "AsyncOption"}
\* the two ways a frame goes on after its callback has been called: its promise
\* is settled with q (the promise of asyncRs / asyncOp follows the promise of the
\* async method it returned), or it waits for what the callback returned
SettleWith(s, q) ==
  /\ heap' = Alloc(heap, q.new)
  /\ promise' = [promise EXCEPT ![s] = [st |-> q.st, val |-> q.val]]
PcAfter(q) == IF q.wait = "none" THEN "done" ELSE "awaitUser"
Awaited(q) == IF q.wait = "value" THEN Resolve(q.aw) ELSE PendingPromise

\* o.toAsync() on a fresh Ok / Err / Some, or on the None
ToAsync(c, v) ==
  /\ Start /\ HasFree(heap)
  /\ LET s == NextStage
         id == Fresh(heap)
         o == CASE c = "Ok" -> ok(v, id)
                [] c = "Err" -> err(v, id)
                [] c = "Some" -> some(v, id)
                [] c = "None" -> none
         p == CASE c = "Ok" -> Ok_toAsync(o)
                [] c = "Err" -> Err_toAsync(o)
                [] c = "Some" -> Some_toAsync(o)
                [] c = "None" -> None_toAsync(o)
     IN /\ heap' = Alloc(heap, o)
        /\ node' = [node EXCEPT ![s] =
                      Container(IF c \in {"Ok", "Err"} THEN "AsyncResult" ELSE "AsyncOption",
                                "toAsync", 0, "done")]
        /\ promise' = [promise EXCEPT ![s] = p]
  /\ UNCHANGED <<user, calls, last>>

\* AsyncResult.begin(): ok().toAsync()
AsyncResult_begin ==
  /\ Start /\ HasFree(heap)
  /\ LET s == NextStage
         o == ok(Undefined, Fresh(heap))
     IN /\ heap' = Alloc(heap, o)
        /\ node' = [node EXCEPT ![s] = Container("AsyncResult", "begin", 0, "done")]
        /\ promise' = [promise EXCEPT ![s] = Ok_toAsync(o)]
  /\ UNCHANGED <<user, calls, last>>

\* what AsyncResult.try(f) / AsyncResult.challenge(f) do with f
StaticOutcome(op, f, fresh) ==
  IF op = "challenge" THEN AsyncResult_challenge(f, fresh)
  ELSE AsyncResult_static_try(f, fresh)
\* the class of the container a static entry point returns: challenge belongs to
\* the first AsyncResult, whose methods are not those of the last one
StaticClass(op) == IF op = "challenge" THEN "AsyncResult (first)" ELSE "AsyncResult"

\* AsyncResult.try(f) without the await: ok(f()) wraps what f returned at once
StaticTry_noawait(op, f) ==
  /\ Start /\ HasFree(heap)
  /\ LET s == NextStage
         q == StaticOutcome(op, f, Fresh(heap))
     IN /\ node' = [node EXCEPT ![s] =
                      [Container(StaticClass(op), op, 0, PcAfter(q)) EXCEPT !.arg = f]]
        /\ calls' = [calls EXCEPT ![s] = q.called]
        /\ heap' = Alloc(heap, q.new)
        /\ promise' = [promise EXCEPT ![s] = [st |-> q.st, val |-> q.val]]
        /\ user' = [user EXCEPT ![s] = IF q.wait = "none" THEN @ ELSE Awaited(q)]
  /\ UNCHANGED last
\* AsyncResult.try(f), AsyncResult.challenge(f): f is invoked before the call returns
StaticTry(op, f) ==
  /\ Start /\ HasFree(heap)
  /\ LET s == NextStage
         q == StaticOutcome(op, f, Fresh(heap))
     IN /\ node' = [node EXCEPT ![s] =
                      [Container(StaticClass(op), op, 0, PcAfter(q)) EXCEPT !.arg = f]]
        /\ calls' = [calls EXCEPT ![s] = q.called]
        /\ IF q.wait = "none"
           THEN /\ heap' = Alloc(heap, q.new)
                /\ promise' = [promise EXCEPT ![s] = [st |-> q.st, val |-> q.val]]
                /\ user' = user
           ELSE /\ heap' = heap
                /\ promise' = [promise EXCEPT ![s] = PendingPromise]
                /\ user' = [user EXCEPT ![s] = Awaited(q)]
  /\ UNCHANGED last

\* new AsyncResult(p) / new AsyncOption(p) around a promise p made elsewhere
NewAsync(cls) ==
  /\ Start
  /\ LET s == NextStage
     IN /\ node' = [node EXCEPT ![s] = Container(cls, "new", 0, "external")]
        /\ promise' = [promise EXCEPT ![s] = PendingPromise]
  /\ UNCHANGED <<heap, user, calls, last>>

\* the promise given to the constructor rejects with reason v
RejectExternal(s, v) ==
  /\ Used(s) /\ node[s].pc = "external"
  /\ promise' = [promise EXCEPT ![s] = [st |-> "rejected", val |-> v]]
  /\ node' = [node EXCEPT ![s].pc = "done"]
  /\ UNCHANGED <<heap, user, calls, last>>

\* a container that runs the computation behind it again for every consumer
Combinator_cold(p, op) ==
  /\ HasStage /\ IsContainer(p)
  /\ op \in (IF node[p].cls = "AsyncResult" THEN ResultCombinators ELSE OptionCombinators)
  /\ LET s == NextStage
     IN /\ node' = [node EXCEPT ![s] = Container(node[p].cls, op, p, "awaitPromise")]
        /\ promise' = [promise EXCEPT ![s] = PendingPromise]
  /\ calls' = [calls EXCEPT ![p] = IF node[p].arg = NoFn THEN @ ELSE @ + 1]
  /\ UNCHANGED <<heap, user, last>>
\* an async function that does not suspend at the await of a promise that is
\* fulfilled already: the method of the container runs before the call returns
Combinator_eager(p, op) ==
  /\ HasStage /\ IsContainer(p)
  /\ op \in (IF node[p].cls = "AsyncResult" THEN ResultCombinators ELSE OptionCombinators)
  /\ LET s == NextStage
         P == promise[p]
     IN IF P.st = "fulfilled" /\ HasFree(heap)
        THEN \E a \in Args(node[p].cls, op) :
               LET q == Step(node[p].cls, op, heap[P.val], a, Fresh(heap))
               IN /\ calls' = [calls EXCEPT ![s] = q.called]
                  /\ node' = [node EXCEPT ![s] =
                                [Container(node[p].cls, op, p, PcAfter(q))
                                   EXCEPT !.seen = P.val, !.arg = a]]
                  /\ IF q.wait = "none"
                     THEN SettleWith(s, q) /\ user' = user
                     ELSE /\ user' = [user EXCEPT ![s] = Awaited(q)]
                          /\ promise' = [promise EXCEPT ![s] = PendingPromise]
                          /\ heap' = heap
        ELSE /\ node' = [node EXCEPT ![s] = Container(node[p].cls, op, p, "awaitPromise")]
             /\ promise' = [promise EXCEPT ![s] = PendingPromise]
             /\ UNCHANGED <<heap, user, calls>>
  /\ UNCHANGED last
\* c.op(f): asyncRs / asyncOp start an async function, which runs up to its
\* `await this.promise` and returns the container around its promise
Combinator(p, op) ==
  /\ HasStage /\ IsContainer(p)
  /\ op \in (IF node[p].cls = "AsyncResult" THEN ResultCombinators ELSE OptionCombinators)
  /\ LET s == NextStage
     IN /\ node' = [node EXCEPT ![s] = Container(node[p].cls, op, p, "awaitPromise")]
        /\ promise' = [promise EXCEPT ![s] = PendingPromise]
  /\ UNCHANGED <<heap, user, calls, last>>

\* c.unwrap(), c.match(m), ...: an async method, suspended at `await this.promise`
Terminal(p, op) ==
  /\ HasStage /\ IsContainer(p)
  /\ op \in (IF node[p].cls = "AsyncResult" THEN ResultTerminals ELSE OptionTerminals)
  /\ LET s == NextStage
     IN /\ node' = [node EXCEPT ![s] = Container("Promise", op, p, "awaitPromise")]
        /\ promise' = [promise EXCEPT ![s] = PendingPromise]
  /\ UNCHANGED <<heap, user, calls, last>>

\* c.toAsyncOption(), c.toOptionPromise(), c.toAsyncResult(f), c.toResultPromise(f):
\* a container of the other class, or a plain promise, around the promise of an
\* async function suspended at `await this.promise`
Conversions(cls) ==
  IF cls = "AsyncResult" THEN {"toAsyncOption", "toOptionPromise"}
  ELSE {"toAsyncResult", "toResultPromise"}
ConvertedClass(op) ==
  CASE op = "toAsyncOption" -> "AsyncOption"
    [] op = "toAsyncResult" -> "AsyncResult"
    [] OTHER -> "Promise"
Convert(p, op) ==
  /\ HasStage /\ IsContainer(p)
  /\ op \in Conversions(node[p].cls)
  /\ LET s == NextStage
     IN /\ node' = [node EXCEPT ![s] = Container(ConvertedClass(op), op, p, "awaitPromise")]
        /\ promise' = [promise EXCEPT ![s] = PendingPromise]
  /\ UNCHANGED <<heap, user, calls, last>>

\* frames that share the variable of the awaited container: a frame goes on with
\* the container its sibling settled to
Outcome_shared(s, a, h) ==
  IF node[s].parent = 0 THEN StaticOutcome(node[s].op, a, Fresh(h))
  ELSE LET t == IF s > 1 THEN s - 1 ELSE s
           shared == /\ t # s /\ node[t].parent = node[s].parent
                     /\ node[t].cls = node[node[s].parent].cls
                     /\ promise[t].st = "fulfilled"
       IN Step(node[node[s].parent].cls, node[s].op,
               h[IF shared THEN promise[t].val ELSE node[s].seen], a, Fresh(h))
\* what the frame of stage s computes from the container it awaited
Outcome(s, a, h) ==
  IF node[s].parent = 0 THEN StaticOutcome(node[s].op, a, Fresh(h))
  ELSE Step(node[node[s].parent].cls, node[s].op, h[node[s].seen], a, Fresh(h))

\* `await this.promise` on a rejected promise throws its reason out of the async
\* function: the promise of the frame rejects with it
\* an awaited rejection that is lost: the frame never goes on
Rethrow_hang(P) == PendingPromise
Rethrow_swallow(P) == Resolve(none_.id)
Rethrow(P) == P

\* the promise awaited by the frame of s has settled: the frame is resumed,
\* rethrows a rejection, or else calls the method of the awaited container
Resume(s) ==
  /\ Used(s) /\ node[s].pc = "awaitPromise"
  /\ Settled(promise[node[s].parent])
  /\ HasFree(heap)
  /\ LET P == promise[node[s].parent] IN
     IF P.st = "rejected"
     THEN /\ promise' = [promise EXCEPT ![s] = Rethrow(P)]
          /\ node' = [node EXCEPT ![s].pc = "done"]
          /\ UNCHANGED <<heap, user, calls>>
     ELSE \E a \in Args(node[node[s].parent].cls, node[s].op) :
            LET q == Step(node[node[s].parent].cls, node[s].op, heap[P.val], a, Fresh(heap))
            IN /\ calls' = [calls EXCEPT ![s] = @ + q.called]
               /\ node' = [node EXCEPT ![s].pc = PcAfter(q), ![s].seen = P.val,
                                       ![s].arg = IF q.called = 0 /\ q.wait = "none"
                                                  THEN NoFn ELSE a]
               /\ IF q.wait = "none"
                  THEN SettleWith(s, q) /\ user' = user
                  ELSE /\ user' = [user EXCEPT ![s] = Awaited(q)]
                       /\ UNCHANGED <<heap, promise>>
  /\ UNCHANGED last

\* the promise a callback returned (or an argument is) settles
SettleUser(s) ==
  /\ Used(s) /\ node[s].pc = "awaitUser" /\ user[s].st = "pending"
  /\ HasFree(heap)
  /\ LET q == Outcome(s, node[s].arg, heap)
     IN /\ q.wait \in {"resolve", "reject"}
        /\ user' = [user EXCEPT ![s] =
                      [st |-> IF q.wait = "resolve" THEN "fulfilled" ELSE "rejected",
                       val |-> q.aw]]
  /\ UNCHANGED <<heap, node, promise, calls, last>>

\* the async method goes on after the await of what its callback returned
ResumeInner(s) ==
  /\ Used(s) /\ node[s].pc = "awaitUser" /\ Settled(user[s])
  /\ HasFree(heap)
  /\ LET q == Outcome(s, node[s].arg, heap)
     IN /\ SettleWith(s, q)
        /\ node' = [node EXCEPT ![s].pc = "done"]
  /\ UNCHANGED <<user, calls, last>>

Next ==
  \/ \E c \in {"Ok", "Err", "Some", "None"}, v \in Vals : ToAsync(c, v)
  \/ AsyncResult_begin
  \/ \E op \in {"static try", "challenge"}, f \in ValueFns : StaticTry(op, f)
  \/ \E cls \in {"AsyncResult", "AsyncOption"} : NewAsync(cls)
  \/ \E s \in Stages, v \in Vals : RejectExternal(s, v)
  \/ \E p \in Stages, op \in ResultCombinators \cup OptionCombinators : Combinator(p, op)
  \/ \E p \in Stages, op \in ResultTerminals \cup OptionTerminals : Terminal(p, op)
  \/ \E s \in Stages : Resume(s)
  \/ \E s \in Stages : SettleUser(s)
  \/ \E s \in Stages : ResumeInner(s)

Spec == Init /\ [][Next]_vars

\* ------------------------------------------------------------------ linear chains
\* p is the container created last: a linear chain only grows at its end
Tip(p) == HasStage /\ NextStage = p + 1
NextChain ==
  \/ \E c \in {"Ok", "Err", "Some", "None"}, v \in Vals : ToAsync(c, v)
  \/ AsyncResult_begin
  \/ \E op \in {"static try", "challenge"}, f \in ValueFns : StaticTry(op, f)
  \/ \E cls \in {"AsyncResult", "AsyncOption"} : NewAsync(cls)
  \/ \E s \in Stages, v \in Vals : RejectExternal(s, v)
  \/ \E p \in Stages, op \in ResultCombinators \cup OptionCombinators :
       Tip(p) /\ Combinator(p, op)
  \/ \E p \in Stages, op \in ResultTerminals \cup OptionTerminals :
       Tip(p) /\ Terminal(p, op)
  \/ \E s \in Stages : Resume(s)
  \/ \E s \in Stages : SettleUser(s)
  \/ \E s \in Stages : ResumeInner(s)
SpecChain == Init /\ [][NextChain]_vars

\* A linear chain under the scheduling of the job queue: a frame whose awaited
\* promise has settled is resumed, and a promise that is going to settle does.
SpecChainFair ==
  /\ SpecChain
  /\ WF_vars(\E s \in Stages : Resume(s))
  /\ WF_vars(\E s \in Stages : SettleUser(s))
  /\ WF_vars(\E s \in Stages : ResumeInner(s))

\* linear chains that may change between AsyncResult and AsyncOption
NextConvert ==
  \/ NextChain
  \/ \E p \in Stages, op \in Conversions("AsyncResult") \cup Conversions("AsyncOption") :
       Tip(p) /\ Convert(p, op)
SpecConvert == Init /\ [][NextConvert]_vars

\* synchronous calls, or one linear asynchronous chain
SpecApi == Init /\ [][NextSync \/ NextChain]_vars

\* ------------------------------------------------------------------ properties
\* the payload a callback of a method of o is given
Payload(o) ==
  CASE o.cls \in {"Some", "Ok"} -> o.value
    [] o.cls = "Err" -> o.error
    [] OTHER -> Undefined
\* two containers of the same variant with the same payload
SameContainer(x, y) == x.cls = y.cls /\ Payload(x) = Payload(y)
Derived(s) == Used(s) /\ node[s].parent # 0
Parent(s) == node[s].parent

\* C1: in a chain the callback of a stage is invoked only once the promise of the
\* stage before it has settled, the promise its callback returned included: no
\* two stages of a chain are in progress together.
C1_CallOrder ==
  \A s \in Stages :
    Derived(s) =>
      /\ node[s].pc = "awaitPromise" => calls[s] = 0
      /\ calls[s] > 0 =>
           /\ Settled(promise[Parent(s)])
           /\ node[Parent(s)].pc = "done"
           /\ user[Parent(s)].st # "pending"
C1_Witness ==
  \E s \in Stages :
    /\ Derived(s) /\ Parent(s) # 0 /\ Derived(Parent(s))
    /\ calls[s] = 1 /\ calls[Parent(s)] = 1
    /\ node[Parent(s)].arg.mode = "resolve"
    /\ node[s].cls = "AsyncOption"

\* C2: the promise of AsyncResult.try(f) / AsyncResult.challenge(f) never rejects;
\* it fulfils with Ok(v) when f returned v or a promise resolving to v, and with
\* Err(e) when f threw e or returned a promise rejecting with e.
C2_TryNeverRejects ==
  \A s \in Stages :
    Used(s) /\ node[s].op \in {"static try", "challenge"} =>
      LET f == node[s].arg
          x == Call(f, Undefined).val
      IN /\ calls[s] = 1
         /\ promise[s].st # "rejected"
         /\ node[s].pc = "done" =>
              /\ promise[s].st = "fulfilled"
              /\ heap[promise[s].val] =
                   IF f.mode \in {"ret", "resolve"} THEN Ok(x, promise[s].val)
                   ELSE Err(x, promise[s].val)
C2_Witness ==
  \E s \in Stages :
    /\ Used(s) /\ node[s].op = "static try" /\ node[s].arg.mode = "reject"
    /\ node[s].pc = "done" /\ heap[promise[s].val].cls = "Err"

\* C3: a map, andThen, and, try stage derived from an AsyncResult settled to Err(e)
\* settles to Err(e) and never invokes its callback.
C3_ErrShortCircuits ==
  \A s \in Stages :
    (/\ Derived(s) /\ node[s].cls = "AsyncResult"
     /\ node[s].op \in {"map", "andThen", "and", "try"}
     /\ promise[Parent(s)].st = "fulfilled"
     /\ heap[promise[Parent(s)].val].cls = "Err") =>
      /\ calls[s] = 0
      /\ promise[s].st # "rejected"
      /\ node[s].pc = "done" =>
           /\ promise[s].st = "fulfilled"
           /\ SameContainer(heap[promise[s].val], heap[promise[Parent(s)].val])

\* C4: what a callback of map, mapErr, andThen, orElse, filter, zipWith (or of
\* their async forms) throws is never turned into Err / None: the synchronous
\* call throws it, the promise of the async form and of the asynchronous
\* container rejects with it, also when the callback returned a rejecting promise.
C4_ThrowPropagates ==
  /\ (/\ last.op \in {"map", "mapErr", "andThen", "orElse", "filter", "zipWith"}
      /\ last.out.called = 1 /\ last.arg.mode = "throw") =>
       /\ last.out.type = "throw" /\ last.out.new = NoObj
       /\ last.out.val =
            IF last.op = "zipWith"
            THEN Call2(last.arg, heap[last.recv].value, heap[last.other].value).val
            ELSE Call(last.arg, Payload(heap[last.recv])).val
  /\ (/\ last.op \in {"mapAsync", "mapErrAsync", "andThenAsync", "orElseAsync",
                      "filterAsync", "zipWithAsync"}
      /\ last.out.called = 1 /\ last.arg.mode \in {"throw", "reject"}) =>
       /\ last.out.st = "rejected" /\ last.out.new = NoObj
       /\ last.out.val =
            IF last.op = "zipWithAsync"
            THEN Call2(last.arg, heap[last.recv].value, heap[last.other].value).val
            ELSE Call(last.arg, Payload(heap[last.recv])).val
  /\ \A s \in Stages :
       (/\ Derived(s) /\ node[s].cls \in {"AsyncResult", "AsyncOption"}
        /\ node[s].op \in {"map", "mapErr", "andThen", "orElse", "filter"}
        /\ calls[s] = 1 /\ node[s].arg.mode \in {"throw", "reject"}) =>
         /\ promise[s].st # "fulfilled"
         /\ node[s].pc = "done" =>
              promise[s] = [st |-> "rejected",
                            val |-> Call(node[s].arg, Payload(heap[node[s].seen])).val]
C4_Witness ==
  \E s \in Stages :
    /\ Derived(s) /\ node[s].op = "andThen" /\ node[s].arg.mode = "reject"
    /\ calls[s] = 1 /\ promise[s].st = "rejected"

\* C5: a stage derived from a container whose promise rejected with v rejects
\* with v too, without invoking its callback or awaiting its argument, whatever
\* the combinator or terminal operation.
C5_RejectionPropagates ==
  \A s \in Stages :
    (/\ Derived(s)
     /\ node[s].op \in {"map", "mapErr", "andThen", "orElse", "and", "or", "filter",
                        "insert", "insertWith", "unwrap", "unwrapErr", "unwrapOr",
                        "unwrapOrElse", "match", "test"}
     /\ promise[Parent(s)].st = "rejected") =>
      /\ calls[s] = 0 /\ user[s] = NoPromise
      /\ promise[s].st # "fulfilled"
      /\ node[s].pc = "done" => promise[s] = promise[Parent(s)]
C5_Witness ==
  \E s, t \in Stages :
    /\ Derived(s) /\ Derived(t) /\ Parent(t) = s /\ node[Parent(s)].op = "new"
    /\ node[s].op = "orElse" /\ node[t].op = "unwrapOr"
    /\ node[t].pc = "done" /\ promise[t].st = "rejected"

\* C6: a settled promise never changes, an object never changes, no callback is
\* invoked a second time, and every consumer of a container is resumed with
\* the object its promise fulfilled with.
C6_SettledOnce ==
  [][/\ \A s \in Stages :
          /\ Settled(promise[s]) => promise'[s] = promise[s]
          /\ calls'[s] <= 1 /\ calls'[s] >= calls[s]
          /\ (node'[s] # Unused /\ node'[s].seen # NoRef) =>
               /\ promise'[node'[s].parent].st = "fulfilled"
               /\ node'[s].seen = promise'[node'[s].parent].val
     /\ \A i \in ObjIds : heap[i] # Free => heap'[i] = heap[i]]_vars
C6_Witness ==
  \E s, t \in Stages :
    /\ s # t /\ Derived(s) /\ Derived(t) /\ Parent(s) = Parent(t)
    /\ calls[Parent(s)] = 1
    /\ node[s].seen # NoRef /\ node[s].seen = node[t].seen
    /\ node[s].cls = "Promise" /\ node[t].cls = "AsyncResult"

\* the synchronous call that corresponds to stage s: the same receiver, the
\* callback returning its value plainly, the argument object as it was awaited
C7Plain(cls, a) ==
  IF a = NoFn THEN [mode |-> "ret", g |-> "inc",
                    kind |-> IF cls = "AsyncResult" THEN "Ok" ELSE "Some"]
  ELSE [a EXCEPT !.mode = "ret"]
C7Other(cls, a) ==
  IF cls = "AsyncResult" THEN MkResult(a.kind, ArgValue(a).val, Fresh(heap))
  ELSE MkOption(a.kind, ArgValue(a).val, Fresh(heap))
C7Sync(s) ==
  LET cls == node[Parent(s)].cls
      r == heap[node[s].seen]
      a == C7Plain(cls, node[s].arg)
      o == IF node[s].op \in Binary THEN C7Other(cls, a) ELSE r
      q == IF cls = "AsyncResult" THEN ResultCall(node[s].op, r, a, o, Fresh(heap))
           ELSE OptionCall(node[s].op, r, a, o, Fresh(heap))
  IN [type |-> q.type,
      val |-> q.val,
      obj |-> IF q.new # NoObj THEN q.new ELSE IF q.val = o.id THEN o ELSE heap[q.val]]
\* C7: o.toAsync().op(args) settles to what the synchronous o.op(args) returns,
\* the callback returning a plain value or a promise resolving to it.
C7_AsyncMatchesSync ==
  \A s \in Stages :
    (/\ Derived(s) /\ node[Parent(s)].op = "toAsync" /\ node[s].pc = "done"
     /\ node[s].op \in (IF node[Parent(s)].cls = "AsyncResult"
                        THEN {"map", "mapErr", "andThen", "orElse", "and", "or"}
                        ELSE {"map", "andThen", "filter", "insert", "insertWith", "orElse",
                              "and", "or", "xor", "test"})
     /\ node[s].arg.mode \in {"none", "ret", "resolve"}) =>
      /\ promise[s].st = "fulfilled"
      /\ C7Sync(s).type = "ret"
      /\ IF node[s].op = "test" THEN promise[s].val = C7Sync(s).val
         ELSE SameContainer(heap[promise[s].val], C7Sync(s).obj)
C7_Witness ==
  \E s \in Stages :
    /\ Derived(s) /\ node[Parent(s)].op = "toAsync" /\ node[s].pc = "done"
    /\ node[s].op = "filter" /\ node[s].arg.mode = "resolve"
    /\ promise[s].st = "fulfilled" /\ heap[promise[s].val].cls = "None"

\* the calls whose answer is Absent
C8Absent(o, op, a, other) ==
  \/ o.cls = "None" /\ op \in {"map", "andThen", "filter", "and", "zip", "zipWith", "never",
                               "mapAsync", "andThenAsync", "filterAsync", "zipWithAsync",
                               "toAsync"}
  \/ o.cls = "Some" /\ op \in {"filter", "filterAsync"}
       /\ a.mode \in {"ret", "resolve"} /\ ~Truthy(Call(a, o.value).val)
  \/ o.cls = "Some" /\ op = "xor" /\ other.cls = "Some"
  \/ o.cls = "Some" /\ op \in {"zip", "zipWith", "zipWithAsync"} /\ other.cls = "None"
  \/ o.cls = "Err" /\ op = "toOption"
\* C8: there is one None, none() returns it, and every operation that answers
\* Absent answers that very instance.
C8_OneNone ==
  /\ \A i \in ObjIds : heap[i].cls = "None" => i = none_.id
  /\ heap[none_.id] = none_
  /\ last.op = "none" => last.out = Ret(none_.id, 0)
  /\ (last.op # "none" /\ last.recv # NoRef
      /\ C8Absent(heap[last.recv], last.op, last.arg, heap[last.other])) =>
       /\ last.out.val = none_.id /\ last.out.new = NoObj
       /\ IF last.op \in OptionAsync THEN last.out.st = "fulfilled"
          ELSE last.out.type = "ret"
C8_Witness ==
  /\ last.op = "xor" /\ heap[last.recv].cls = "Some" /\ heap[last.other].cls = "Some"
  /\ last.out.val = none_.id

\* C9: unwrap, unwrapOr, unwrapOrElse of Some(v) return v, falsy or not, without
\* invoking f; on None unwrap throws, unwrapOr returns the alternate and
\* unwrapOrElse returns what f, invoked once, returns.
C9_Unwrap ==
  (last.op \in {"unwrap", "unwrapOr", "unwrapOrElse"} /\ IsOption(heap[last.recv])) =>
    LET o == heap[last.recv] IN
    IF o.cls = "Some" THEN last.out = Ret(o.value, 0)
    ELSE CASE last.op = "unwrap" -> last.out = Throw(ErrUnwrapNone, 0)
           [] last.op = "unwrapOr" -> last.out = Ret(ArgValue(last.arg).val, 0)
           [] OTHER -> last.out = ReturnValue(Call(last.arg, Undefined), 1)
C9_Witness ==
  /\ last.op = "unwrapOr" /\ heap[last.recv].cls = "Some"
  /\ heap[last.recv].value = 0 /\ ArgValue(last.arg).val # 0
  /\ last.out.val = 0

\* whether o.unwrap() / o.unwrapErr() throws
C10Throws(op, o) == ResultCall(op, o, NoArg, o, Fresh(heap)).type = "throw"
C11_AndOrXor ==
  (last.op \in {"and", "or", "xor"} /\ IsOption(heap[last.recv])) =>
    LET a == heap[last.recv]
        b == heap[last.other]
    IN last.out =
         Ret(CASE last.op = "and" -> IF a.cls = "Some" THEN b.id ELSE none_.id
               [] last.op = "or" -> IF a.cls = "Some" THEN a.id ELSE b.id
               [] last.op = "xor" ->
                    IF a.cls = "None" THEN b.id
                    ELSE IF b.cls = "None" THEN a.id ELSE none_.id, 0)
C11_Witness ==
  /\ last.op = "xor" /\ heap[last.recv].cls = "None" /\ heap[last.other].cls = "Some"
  /\ last.out.val = last.other

\* C12: map changes the value of an Ok and returns an Err as it is, mapErr
\* changes the error of an Err and returns an Ok as it is, each without invoking
\* the callback on the other variant; so do mapAsync and mapErrAsync once
\* their promise has fulfilled.
C12_OneChannel ==
  (last.op \in {"map", "mapErr", "mapAsync", "mapErrAsync"} /\ IsResult(heap[last.recv])) =>
    LET o == heap[last.recv]
        x == Call(last.arg, Payload(o)).val
        onOk == last.op \in {"map", "mapAsync"}
        new == IF onOk THEN Ok(x, last.out.val) ELSE Err(x, last.out.val)
    IN IF onOk = o.isOk
       THEN /\ last.out.called = 1
            /\ last.op \in {"map", "mapErr"} /\ last.arg.mode = "ret" =>
                 last.out.type = "ret" /\ last.out.new = new /\ last.out.val # o.id
            /\ last.op \in {"mapAsync", "mapErrAsync"} =>
                 /\ last.out.st = "fulfilled" <=> last.arg.mode \in {"ret", "resolve"}
                 /\ last.out.st = "fulfilled" => last.out.new = new /\ last.out.val # o.id
       ELSE /\ last.out.called = 0 /\ last.out.val = o.id /\ last.out.new = NoObj
            /\ IF last.op \in {"map", "mapErr"} THEN last.out.type = "ret"
               ELSE last.out.st = "fulfilled"
C12_Witness ==
  /\ last.op = "mapErrAsync" /\ heap[last.recv].cls = "Err" /\ last.arg.mode = "resolve"
  /\ last.out.st = "fulfilled" /\ last.out.new.cls = "Err"

\* C13: Result.challenge(f) invokes f once and never throws: it returns a new
\* Ok of what f returned, or a new Err of the very value f threw.
C13_ChallengeCatches ==
  last.op = "challenge" =>
    LET c == Call(last.arg, Undefined) IN
    /\ last.out.type = "ret" /\ last.out.called = 1
    /\ last.out.new = IF c.type = "throw" THEN Err(c.val, last.out.val)
                      ELSE Ok(c.val, last.out.val)
    /\ heap[last.out.val] = last.out.new
C13_Witness ==
  /\ last.op = "challenge" /\ last.arg.mode = "throw"
  /\ last.out.new.cls = "Err" /\ last.out.new.error = Call(last.arg, Undefined).val

\* C14: try(f) and tryAsync(f) of an Ok(v) yield the Result f(v) returned (the
\* async forms: the one its promise fulfilled with), or an Err of what f threw
\* or its promise rejected with; of an Err they yield the receiver itself and
\* do not invoke f. The try stage of an AsyncResult does the same with the
\* Result its parent settled to, and never rejects.
C14_Try ==
  /\ (last.op \in {"try", "tryAsync"} /\ IsResult(heap[last.recv])) =>
       LET o == heap[last.recv]
           f == last.arg
           x == Call(f, Payload(o)).val
           made == IF f.mode \in {"throw", "reject"} THEN Err(x, last.out.val)
                   ELSE MkResult(f.kind, x, last.out.val)
       IN IF o.isOk
          THEN /\ last.out.called = 1
               /\ last.op = "try" => last.out.type = "ret" /\ last.out.new = made
               /\ last.op = "tryAsync" =>
                    /\ last.out.st # "rejected"
                    /\ last.out.st = "pending" <=> f.mode = "never"
                    /\ last.out.st = "fulfilled" => last.out.new = made
          ELSE /\ last.out.called = 0 /\ last.out.val = o.id /\ last.out.new = NoObj
               /\ IF last.op = "try" THEN last.out.type = "ret"
                  ELSE last.out.st = "fulfilled"
  /\ \A s \in Stages :
       (/\ Derived(s) /\ node[s].cls = "AsyncResult" /\ node[s].op = "try"
        /\ promise[Parent(s)].st = "fulfilled") =>
         LET r == heap[promise[Parent(s)].val]
             f == node[s].arg
             x == Call(f, Payload(r)).val
         IN /\ promise[s].st # "rejected"
            /\ IF r.isOk
               THEN /\ node[s].pc # "awaitPromise" => calls[s] = 1
                    /\ node[s].pc = "done" =>
                         /\ promise[s].st = "fulfilled"
                         /\ heap[promise[s].val] =
                              IF f.mode \in {"throw", "reject"} THEN Err(x, promise[s].val)
                              ELSE MkResult(f.kind, x, promise[s].val)
               ELSE /\ calls[s] = 0
                    /\ node[s].pc = "done" => promise[s] = promise[Parent(s)]
C14_Witness ==
  \E s \in Stages :
    /\ Derived(s) /\ node[s].cls = "AsyncResult" /\ node[s].op = "try"
    /\ promise[Parent(s)].st = "fulfilled" /\ heap[promise[Parent(s)].val].cls = "Ok"
    /\ node[s].arg.mode = "reject" /\ node[s].pc = "done"
    /\ heap[promise[s].val].cls = "Err"

\* the container a synchronous call q returned, in the heap h
Returned(q, h) == IF q.new # NoObj THEN q.new ELSE h[q.val]
\* o.op(f), as a container: the new one, o itself or one of the heap
Applied(op, o, f) ==
  LET q == IF IsOption(o) THEN OptionCall(op, o, f, o, Fresh(heap))
           ELSE ResultCall(op, o, f, o, Fresh(heap))
  IN IF q.new = NoObj /\ q.val = o.id THEN o ELSE Returned(q, heap)
\* the functions f, g of the laws
Pure == {[mode |-> "ret", g |-> n, kind |-> "val"] : n \in {"id", "inc", "zero"}}
\* v => g(f(v)), at the argument x
Compose(g, f, x) ==
  [mode |-> "ret", g |-> "const", c |-> Call(g, Call(f, x).val).val, kind |-> "val"]

\* C15: map obeys the functor laws on Option and on Result: m.map(v => v) equals
\* m, m.map(f).map(g) equals m.map(v => g(f(v))), and map of None / Err returns
\* the receiver.
C15_FunctorLaws ==
  (last.op = "map" /\ last.arg.mode = "ret") =>
    LET m == heap[last.recv]
        f == last.arg
        mf == Returned(last.out, heap)
    IN /\ last.out.type = "ret"
       /\ m.cls \in {"None", "Err"} => last.out = Ret(m.id, 0)
       /\ f = Identity => SameContainer(mf, m)
       /\ \A g \in Pure :
            SameContainer(Applied("map", mf, g),
                          Applied("map", m, Compose(g, f, Payload(m))))
C15_Witness ==
  /\ last.op = "map" /\ last.arg.g = "inc" /\ heap[last.recv].cls = "Ok"
  /\ heap[last.recv].value = MaxVal
  /\ last.out.new = Ok(0, last.out.val)

\* the functions f, g of the monad law: they return a container of the class of o
Kleisli(o) ==
  {[mode |-> "ret", g |-> n, kind |-> k] :
     n \in {"id", "inc"}, k \in IF IsOption(o) THEN {"Some", "None"} ELSE {"Ok", "Err"}}
\* v => f(v).andThen(g), at the argument x: the container it returns there
Bind(g, f, x, o) ==
  LET fx == IF IsOption(o) THEN MkOption(f.kind, Call(f, x).val, Fresh(heap))
            ELSE MkResult(f.kind, Call(f, x).val, Fresh(heap))
      r == Applied("andThen", fx, g)
  IN [mode |-> "ret", g |-> "const", c |-> Payload(r), kind |-> r.cls]

\* C16: andThen is associative on Option and on Result: m.andThen(f).andThen(g)
\* equals m.andThen(v => f(v).andThen(g)) for every m and all f, g that return
\* containers, None / Err in any of the three places included.
C16_Associative ==
  (last.op = "andThen" /\ last.arg.mode = "ret") =>
    LET m == heap[last.recv]
        f == last.arg
        mf == Returned(last.out, heap)
    IN /\ last.out.type = "ret"
       /\ \A g \in Kleisli(m) :
            SameContainer(Applied("andThen", mf, g),
                          Applied("andThen", m, Bind(g, f, Payload(m), m)))
C16_Witness ==
  /\ last.op = "andThen" /\ heap[last.recv].cls = "Ok" /\ last.arg.kind = "Err"
  /\ last.out.new.cls = "Err" /\ last.out.called = 1

\* C17: toResult turns Some(x) into Ok(x) without invoking its callback and None
\* into Err of what the callback returns; toOption turns Ok(x) into Some(x) and
\* Err(e) into the None; so Some(x).toResult(errFn).toOption().unwrap() is x.
C17_Conversions ==
  /\ (last.op = "toResult" /\ IsOption(heap[last.recv])) =>
       LET o == heap[last.recv] IN
       IF o.isSome
       THEN /\ last.out.type = "ret" /\ last.out.called = 0
            /\ last.out.new = Ok(o.value, last.out.val)
            /\ LET opt == Applied("toOption", last.out.new, NoArg)
               IN /\ opt.cls = "Some"
                  /\ OptionCall("unwrap", opt, NoArg, opt, Fresh(heap)) = Ret(o.value, 0)
       ELSE /\ last.out.called = 1
            /\ last.arg.mode = "ret" =>
                 /\ last.out.type = "ret"
                 /\ last.out.new = Err(Call(last.arg, Undefined).val, last.out.val)
  /\ (last.op = "toOption" /\ IsResult(heap[last.recv])) =>
       LET r == heap[last.recv] IN
       IF r.isOk
       THEN /\ last.out.type = "ret"
            /\ last.out.new = Some(r.value, last.out.val)
       ELSE last.out = Ret(none_.id, 0)
C17_Witness ==
  /\ last.op = "toResult" /\ heap[last.recv].cls = "Some"
  /\ heap[last.recv].value = MaxVal /\ last.arg.mode = "throw"
  /\ last.out.new.cls = "Ok" /\ last.out.new.value = MaxVal

\* C18: toAsync() of a Some, None, Ok or Err returns an asynchronous container
\* whose promise is fulfilled from the start, with the very object toAsync was
\* called on; it waits for nothing and invokes nothing.
C18_ToAsync ==
  /\ last.op = "toAsync" =>
       /\ last.out = [called |-> 0, wait |-> "none", aw |-> Undefined,
                      st |-> "fulfilled", val |-> last.recv, new |-> NoObj]
       /\ heap[last.recv].id = last.recv
  /\ \A s \in Stages :
       (Used(s) /\ node[s].op = "toAsync") =>
         /\ promise[s].st = "fulfilled" /\ node[s].pc = "done"
         /\ calls[s] = 0 /\ user[s] = NoPromise
         /\ heap[promise[s].val].id = promise[s].val
         /\ IF node[s].cls = "AsyncResult" THEN IsResult(heap[promise[s].val])
            ELSE IsOption(heap[promise[s].val])
C18_Witness ==
  /\ last.op = "toAsync" /\ heap[last.recv].cls = "Err"
  /\ last.out.st = "fulfilled" /\ last.out.val = last.recv

\* the async methods of None that have nothing to do, and those that act on None
NoneIdle == {"mapAsync", "andThenAsync", "filterAsync", "zipWithAsync", "testAsync"}
NoneActs == {"insertWithAsync", "orElseAsync", "toResultAsync"}

\* C19 (as stated): on None each of mapAsync, andThenAsync, filterAsync,
\* insertWithAsync, orElseAsync, zipWithAsync, testAsync, toResultAsync settles
\* at once: it waits for no promise that a user-supplied function returned.
C19_NoneSettlesAtOnce ==
  (last.op \in NoneIdle \cup NoneActs /\ heap[last.recv].cls = "None") =>
    last.out.wait \notin {"resolve", "reject", "never"} /\ last.out.st # "pending"

\* C19 (amended): on None mapAsync, andThenAsync, filterAsync, zipWithAsync and
\* testAsync settle at once (to the None, testAsync to false) without invoking
\* their function; insertWithAsync, orElseAsync and toResultAsync invoke theirs
\* once and settle as its result does: fulfilled when it returns a value or a
\* promise that fulfils, rejected when it throws or its promise rejects, never
\* when its promise never settles.
C19_NoneAsync ==
  (last.op \in NoneIdle \cup NoneActs /\ heap[last.recv].cls = "None") =>
    IF last.op \in NoneIdle
    THEN last.out = Fulfilled(IF last.op = "testAsync" THEN False ELSE none_.id, 0)
    ELSE LET f == last.arg
             x == Call(f, Undefined).val
         IN /\ last.out.called = 1
            /\ f.mode \in {"resolve", "reject", "never"} => last.out.wait = f.mode
            /\ last.out.st = CASE f.mode \in {"ret", "resolve"} -> "fulfilled"
                               [] f.mode \in {"throw", "reject"} -> "rejected"
                               [] OTHER -> "pending"
            /\ last.out.st = "rejected" => last.out.val = x
            /\ last.out.st = "fulfilled" =>
                 Returned(last.out, heap) =
                   CASE last.op = "insertWithAsync" -> Some(x, last.out.val)
                     [] last.op = "toResultAsync" -> Err(x, last.out.val)
                     [] OTHER -> IF f.kind = "Some" THEN Some(x, last.out.val) ELSE none_
C19_Witness ==
  /\ last.op = "insertWithAsync" /\ heap[last.recv].cls = "None"
  /\ last.arg.mode = "resolve" /\ last.out.wait = "resolve"
  /\ last.out.new.cls = "Some"

\* the stages the settling of s depends on: s and the stages before it
Upstream(s) ==
  LET up[t \in Stages] ==
        IF ~Used(t) THEN {}
        ELSE IF node[t].parent = 0 THEN {t} ELSE {t} \cup up[node[t].parent]
  IN up[s]
\* the frame of t awaits a promise that never settles
AwaitsForever(t) ==
  node[t].pc = "awaitUser" /\ Outcome(t, node[t].arg, heap).wait = "never"
\* the promise the root of the chain was constructed with has not settled
RootPending(t) == node[t].pc = "external"
\* s is held up by an unsettled root or by a promise a user function returned
HeldByFunction(s) ==
  \E t \in Upstream(s) : RootPending(t) \/ (AwaitsForever(t) /\ calls[t] = 1)
\* ... or by a promise that was passed as an argument
Held(s) == \E t \in Upstream(s) : RootPending(t) \/ AwaitsForever(t)

\* C20 (as stated): in a chain whose root promise settles and whose user
\* functions all return, or return promises that settle, every stage eventually
\* settles, fulfilled or rejected.
C20_SettlesUnlessFunctionHangs ==
  \A s \in Stages : [](Used(s) => <>(Settled(promise[s]) \/ HeldByFunction(s)))

\* C20 (amended): in a chain whose root promise settles, whose user functions
\* all return, or return promises that settle, and whose promise arguments
\* settle, every stage eventually settles, fulfilled or rejected.
C20_ChainSettles ==
  \A s \in Stages : [](Used(s) => <>(Settled(promise[s]) \/ Held(s)))
C20_Witness ==
  /\ ~HasStage /\ \A s \in Stages : Settled(promise[s])
  /\ \E s \in Stages :
       /\ Derived(s) /\ node[s].op = "andThen" /\ calls[s] = 1
       /\ node[s].arg.mode = "resolve"
  /\ \E s \in Stages : Derived(s) /\ promise[s].st = "rejected"

\* stage s settled as the outcome q says; the object q made, if it is what q
\* settles with, is in the heap at the address the stage settled with
SettledAs(s, q) ==
  /\ promise[s].st = q.st
  /\ IF q.new # NoObj /\ q.val = q.new.id
     THEN heap[promise[s].val] = [q.new EXCEPT !.id = promise[s].val]
     ELSE promise[s].val = q.val
\* what stage s settles to when nothing else runs: the rejection of its parent,
\* or else what its method makes of the container its parent fulfilled with
AloneSettled(s) ==
  LET P == promise[Parent(s)]
      run(a) == Step(node[Parent(s)].cls, node[s].op, heap[P.val], a, NoRef)
  IN IF P.st = "rejected" THEN promise[s] = P
     ELSE IF node[s].arg # NoFn THEN SettledAs(s, run(node[s].arg))
     ELSE \A a \in Args(node[Parent(s)].cls, node[s].op) :
            (run(a).called = 0 /\ run(a).wait = "none") => SettledAs(s, run(a))

\* C21: chains that do not derive from one another do not influence each other:
\* under every interleaving a stage settles to what its own parent, method and
\* argument give when run alone, whatever stages branched from the same
\* container, or from others, did or settled to.
C21_Independent ==
  \A s \in Stages :
    (Derived(s) /\ node[s].pc = "done") => AloneSettled(s)
C21_Witness ==
  \E s, t \in Stages :
    /\ Derived(s) /\ Derived(t) /\ s < t /\ Parent(s) = Parent(t)
    /\ node[s].pc = "awaitUser" /\ node[t].pc = "done"
    /\ promise[t].st = "rejected" /\ promise[Parent(t)].st = "fulfilled"

\* the combinators of the claim, and those that make a new container of a
\* Some / Ok receiver
Combinators ==
  {"map", "mapErr", "andThen", "orElse", "and", "or", "xor", "filter", "insert", "zip",
   "mapAsync", "mapErrAsync", "andThenAsync", "orElseAsync", "filterAsync",
   "zipWith", "zipWithAsync", "insertWith", "insertWithAsync"}
Transforming(op, o, other) ==
  \/ op \in {"map", "mapAsync"} /\ o.cls \in {"Some", "Ok"}
  \/ op \in {"zip", "zipWith", "zipWithAsync"} /\ o.cls = "Some" /\ other.cls = "Some"
\* the call recorded in `last` returned, or its promise fulfilled
Completed(out) ==
  IF "type" \in DOMAIN out THEN out.type = "ret" ELSE out.st = "fulfilled"

\* C22: no combinator, synchronous or asynchronous, changes its receiver, its
\* argument or any other object: every object keeps its variant and payload for
\* ever; and map, zip, zipWith (and their async forms) on Some / Ok hand back a
\* new object, distinct from the receiver and from the argument.
C22_NoMutation ==
  /\ [](/\ (/\ last.op \in Combinators
            /\ Transforming(last.op, heap[last.recv], heap[last.other])
            /\ Completed(last.out)) =>
             /\ last.out.new # NoObj /\ last.out.val = last.out.new.id
             /\ last.out.val \notin {last.recv, last.other}
             /\ heap[last.out.val] = last.out.new
        /\ \A s \in Stages :
             (/\ Derived(s) /\ node[s].op = "map" /\ node[s].pc = "done"
              /\ promise[s].st = "fulfilled" /\ promise[Parent(s)].st = "fulfilled"
              /\ heap[promise[Parent(s)].val].cls \in {"Some", "Ok"}) =>
               /\ promise[s].val # promise[Parent(s)].val
               /\ heap[promise[s].val].cls = heap[promise[Parent(s)].val].cls)
  /\ [][/\ \A i \in ObjIds : heap[i] # Free => heap'[i] = heap[i]
        /\ (last' # last /\ last'.op \in Combinators) =>
             /\ heap'[last'.recv] = heap[last'.recv]
             /\ heap'[last'.other] = heap[last'.other]]_vars
C22_Witness ==
  /\ last.op = "mapAsync" /\ heap[last.recv].cls = "Ok" /\ last.arg.mode = "resolve"
  /\ last.out.new.cls = "Ok" /\ last.out.new.value # heap[last.recv].value
  /\ last.out.val # last.recv

\* the promise of stage s fulfilled with what f returns for x, when f returns a
\* value or a promise that fulfils
FulfilsWith(s, f, x) ==
  f.mode \in {"ret", "resolve"} => promise[s] = [st |-> "fulfilled", val |-> Call(f, x).val]

\* C23: a terminal operation of an asynchronous container returns a promise of
\* the plain value: unwrap fulfils with the payload of Some / Ok and rejects on
\* None / Err, unwrapErr fulfils with the error of Err and rejects on Ok,
\* unwrapOr / unwrapOrElse fulfil with the payload or else with the alternative,
\* match fulfils with what the one matching handler returns.
C23_Terminals ==
  \A s \in Stages :
    (/\ Derived(s) /\ node[s].cls = "Promise"
     /\ node[s].op \in {"unwrap", "unwrapErr", "unwrapOr", "unwrapOrElse", "match"}) =>
      /\ promise[s].st # "none"
      /\ (promise[Parent(s)].st = "fulfilled" /\ node[s].pc = "done") =>
           LET r == heap[promise[Parent(s)].val]
               good == r.cls \in {"Some", "Ok"}
               a == node[s].arg
               payload == [st |-> "fulfilled", val |-> Payload(r)]
           IN CASE node[s].op = "unwrap" ->
                     /\ calls[s] = 0
                     /\ IF good THEN promise[s] = payload
                        ELSE promise[s] = [st |-> "rejected",
                                           val |-> IF r.cls = "Err" THEN ErrUnwrapOnErr
                                                   ELSE ErrUnwrapNone]
                [] node[s].op = "unwrapErr" ->
                     /\ calls[s] = 0
                     /\ IF r.isErr THEN promise[s] = payload
                        ELSE promise[s] = [st |-> "rejected", val |-> ErrUnwrapErrOnOk]
                [] node[s].op = "unwrapOr" ->
                     /\ calls[s] = 0
                     /\ IF good THEN promise[s] = payload
                        ELSE IF a = NoFn
                        THEN \E v \in OfMode(ValueArgs, {"ret"}) :
                               promise[s] = [st |-> "fulfilled", val |-> ArgValue(v).val]
                        ELSE FulfilsWith(s, a, Undefined)
                [] node[s].op = "unwrapOrElse" ->
                     IF good THEN calls[s] = 0 /\ promise[s] = payload
                     ELSE calls[s] = 1 /\ FulfilsWith(s, a, Payload(r))
                [] node[s].op = "match" ->
                     /\ calls[s] = 1
                     /\ FulfilsWith(s, CASE r.cls = "Ok" -> a.ok [] r.cls = "Err" -> a.err
                                         [] r.cls = "Some" -> a.some [] OTHER -> a.none,
                                    Payload(r))
C23_Witness ==
  \E s \in Stages :
    /\ Derived(s) /\ node[s].cls = "Promise" /\ node[s].op = "unwrap"
    /\ node[s].pc = "done" /\ promise[Parent(s)].st = "fulfilled"
    /\ heap[promise[Parent(s)].val].cls = "None"
    /\ promise[s] = [st |-> "rejected", val |-> ErrUnwrapNone]

\* C24: zip, zipWith and zipWithAsync give a Some only of two Somes:
\* Some(a).zip(Some(b)) is a new Some([a, b]), zipWith / zipWithAsync a new Some
\* of f(a, b), f being given the value of the receiver first; with a None on
\* either side they give the None and do not invoke f.
C24_Zip ==
  (last.op \in {"zip", "zipWith", "zipWithAsync"} /\ IsOption(heap[last.recv])) =>
    LET o == heap[last.recv]
        other == heap[last.other]
        f == last.arg
    IN IF o.isSome /\ other.isSome
       THEN CASE last.op = "zip" ->
                   /\ last.out.type = "ret" /\ last.out.called = 0
                   /\ last.out.new = Some(Pair(o.value, other.value), last.out.val)
              [] last.op = "zipWith" ->
                   /\ last.out.called = 1
                   /\ f.mode = "ret" =>
                        /\ last.out.type = "ret"
                        /\ last.out.new =
                             Some(Call2(f, o.value, other.value).val, last.out.val)
              [] last.op = "zipWithAsync" ->
                   /\ last.out.called = 1
                   /\ f.mode \in {"ret", "resolve"} =>
                        /\ last.out.st = "fulfilled"
                        /\ last.out.new =
                             Some(Call2(f, o.value, other.value).val, last.out.val)
       ELSE /\ last.out.called = 0 /\ last.out.val = none_.id /\ last.out.new = NoObj
            /\ IF last.op = "zipWithAsync" THEN last.out.st = "fulfilled"
               ELSE last.out.type = "ret"
C24_Witness ==
  /\ last.op = "zipWith" /\ heap[last.recv].cls = "Some" /\ heap[last.other].cls = "Some"
  /\ heap[last.recv].value # heap[last.other].value /\ last.arg.mode = "ret"
  /\ last.out.new.cls = "Some"

\* C25: the asynchronous conversions do what the synchronous ones do, after the
\* await: toAsyncOption / toOptionPromise settle to a Some of the value of an Ok
\* and to the None for an Err; toAsyncResult / toResultPromise settle to an Ok
\* of the value of a Some without invoking errFn, and for the None to an Err of
\* what errFn returned or its promise fulfilled with.
C25_AsyncConversions ==
  \A s \in Stages :
    (/\ Derived(s) /\ node[s].pc = "done"
     /\ node[s].op \in Conversions("AsyncResult") \cup Conversions("AsyncOption")
     /\ promise[Parent(s)].st = "fulfilled") =>
      LET r == heap[promise[Parent(s)].val]
          f == node[s].arg
          made == heap[promise[s].val]
      IN CASE r.cls = "Ok" ->
                /\ calls[s] = 0 /\ promise[s].st = "fulfilled"
                /\ made = Some(r.value, promise[s].val)
           [] r.cls = "Err" ->
                calls[s] = 0 /\ promise[s] = [st |-> "fulfilled", val |-> none_.id]
           [] r.cls = "Some" ->
                /\ calls[s] = 0 /\ promise[s].st = "fulfilled"
                /\ made = Ok(r.value, promise[s].val)
           [] r.cls = "None" ->
                /\ calls[s] = 1
                /\ f.mode \in {"ret", "resolve"} =>
                     /\ promise[s].st = "fulfilled"
                     /\ made = Err(Call(f, Undefined).val, promise[s].val)
C25_Witness ==
  \E s \in Stages :
    /\ Derived(s) /\ node[s].op = "toAsyncResult" /\ node[s].pc = "done"
    /\ promise[Parent(s)] = [st |-> "fulfilled", val |-> none_.id]
    /\ node[s].arg.mode = "resolve" /\ heap[promise[s].val].cls = "Err"
    /\ \E t \in Stages : Derived(t) /\ Parent(t) = s /\ node[t].cls = "AsyncResult"

\* C26: the fallbacks of an Option are evaluated only when needed and once:
\* insert, insertWith, insertWithAsync, orElse, orElseAsync of a Some return the
\* receiver itself and invoke nothing; of the None, insertWith / insertWithAsync
\* invoke f once and give a new Some of its value, orElse / orElseAsync invoke f
\* once and give the Option it returned, and insert(alt) gives a new Some(alt).
C26_LazyFallback ==
  (/\ last.op \in {"insert", "insertWith", "insertWithAsync", "orElse", "orElseAsync"}
   /\ IsOption(heap[last.recv])) =>
    LET o == heap[last.recv]
        f == last.arg
        x == Call(f, Undefined).val
        async == last.op \in {"insertWithAsync", "orElseAsync"}
        returns == IF async THEN f.mode \in {"ret", "resolve"} ELSE f.mode = "ret"
    IN IF o.isSome
       THEN /\ last.out.called = 0 /\ last.out.val = o.id /\ last.out.new = NoObj
            /\ Completed(last.out)
       ELSE /\ last.out.called = IF last.op = "insert" THEN 0 ELSE 1
            /\ returns =>
                 /\ Completed(last.out)
                 /\ IF last.op \in {"orElse", "orElseAsync"} /\ f.kind = "None"
                    THEN last.out.val = none_.id /\ last.out.new = NoObj
                    ELSE last.out.new = Some(x, last.out.val)
C26_Witness ==
  /\ last.op = "orElseAsync" /\ heap[last.recv].cls = "None"
  /\ last.arg.mode = "resolve" /\ last.arg.kind = "Some"
  /\ last.out.called = 1 /\ last.out.new.cls = "Some"

\* C27: the try stage of an AsyncResult makes an Err only of what its own
\* function throws or rejects with: when the promise of the receiver rejected
\* with v, the stage rejects with v as well, and the function is not invoked.
C27_TryRethrows ==
  \A s \in Stages :
    (/\ Derived(s) /\ node[s].cls = "AsyncResult" /\ node[s].op = "try"
     /\ promise[Parent(s)].st = "rejected") =>
      /\ calls[s] = 0 /\ user[s] = NoPromise
      /\ promise[s].st # "fulfilled"
      /\ node[s].pc = "done" => promise[s] = promise[Parent(s)]
C27_Witness ==
  \E s \in Stages :
    /\ Derived(s) /\ node[s].cls = "AsyncResult" /\ node[s].op = "try"
    /\ node[s].pc = "done" /\ promise[s].st = "rejected"
    /\ promise[Parent(s)] = promise[s] /\ calls[s] = 0
    /\ node[Parent(s)].op = "andThen" /\ calls[Parent(s)] = 1

\* C28: a promise given to and / or / xor / insert of an AsyncOption, or to and /
\* or of an AsyncResult, is awaited after the wrapped promise and whatever the
\* receiver settled to: the stage rejects with the reason the argument rejects
\* with, and stays pending for ever when the argument never settles, also where
\* the receiver alone decides the result (and on None / Err, or and insert on
\* Some / Ok).
ArgumentOps(cls) ==
  IF cls = "AsyncResult" THEN {"and", "or"} ELSE {"and", "or", "xor", "insert"}
Created(s) == node[s] = Unused /\ node'[s] # Unused
C29_ReturnsBeforeFunction ==
  [][\A s \in Stages :
       /\ (Created(s) /\ node'[s].parent # 0 /\ node'[s].cls # "Promise") =>
            /\ calls'[s] = 0 /\ node'[s].pc = "awaitPromise" /\ node'[s].seen = NoRef
            /\ promise'[s] = PendingPromise /\ user'[s] = NoPromise
            /\ \A t \in Stages \ {s} : calls'[t] = calls[t]
       /\ (Created(s) /\ node'[s].op \in {"static try", "challenge"}) =>
            /\ calls'[s] = 1 /\ node'[s].pc \in {"done", "awaitUser"}
       /\ (Derived(s) /\ calls'[s] > calls[s]) =>
            /\ node[s].pc = "awaitPromise" /\ node'[s].seen # NoRef
            /\ promise[Parent(s)].st = "fulfilled"]_vars
C29_Witness ==
  \E r, s \in Stages :
    /\ Derived(s) /\ Parent(s) = r /\ node[s].cls # "Promise"
    /\ node[r].op = "toAsync" /\ promise[r].st = "fulfilled"
    /\ node[s].op \in {"map", "andThen"} /\ heap[promise[r].val].cls \in {"Ok", "Some"}
    /\ node[s].pc = "awaitPromise" /\ calls[s] = 0

\* C30: unwrapOr(alt) of an AsyncResult / AsyncOption uses alt on the failure
\* side only. On Ok(v) / Some(v) its promise fulfils with v as soon as the
\* container has settled, whatever alt is (a value, or a promise that resolves,
\* rejects or never settles); on Err / None it follows alt: it fulfils with the
\* value alt resolves to, rejects with the reason alt rejects with, and stays
\* pending while alt does.
C30_UnwrapOr ==
  \A s \in Stages :
    (/\ Derived(s) /\ node[s].op = "unwrapOr" /\ node[s].seen # NoRef) =>
      LET o == heap[node[s].seen]
          a == node[s].arg
      IN IF o.cls \in {"Ok", "Some"}
         THEN /\ node[s].pc = "done" /\ calls[s] = 0 /\ user[s] = NoPromise
              /\ promise[s] = Resolve(o.value)
         ELSE /\ calls[s] = 0
              /\ a = NoFn => node[s].pc = "done" /\ promise[s].st = "fulfilled"
              /\ a # NoFn =>
                   /\ node[s].pc = "done" =>
                        /\ a.mode # "never"
                        /\ promise[s] = [st |-> IF a.mode = "reject" THEN "rejected"
                                                ELSE "fulfilled",
                                         val |-> ArgValue(a).val]
                   /\ node[s].pc # "done" => promise[s].st = "pending"
C30_Witness ==
  \E s \in Stages :
    /\ Derived(s) /\ node[s].op = "unwrapOr" /\ node[s].seen # NoRef
    /\ heap[node[s].seen].cls \in {"Err", "None"}
    /\ node[s].arg # NoFn /\ node[s].arg.mode = "resolve"
    /\ node[s].pc = "done" /\ promise[s] = Resolve(ArgValue(node[s].arg).val)

====
